---- MODULE Spec2Model ----
(***************************************************************************)
(* Lazada multi-country scraper (scrape.py) and its verification dashboard *)
(* (verify.py).                                                            *)
(*                                                                         *)
(* The module holds eight specifications over one set of variables:        *)
(*   SpecReconcile  check_country_categories applied to one warehouse      *)
(*                  query result and one expected-category mapping;        *)
(*   SpecClassify   run_curl_for_query and validate_curl_command applied   *)
(*                  to one transport response;                             *)
(*   SpecCategory   one call of scrape_category;                           *)
(*   SpecCountry    one call of scrape_country and a reconciliation of     *)
(*                  the country after it;                                  *)
(*   Spec           one run of scrape.main;                                *)
(*   SpecStatus     get_status_emoji applied to one set of arguments;      *)
(*   SpecVerifyMain one run of verify.main;                                *)
(*   SpecDay        uploads, guard checks and reconciliations over the     *)
(*                  hours of a day, for the calendar day of the rows.      *)
(***************************************************************************)
EXTENDS Integers, Sequences, FiniteSets, TLC

VARIABLES
    pc,                   \* control position of the single thread
    \* ---- verify.check_country_categories
    query_result,         \* what client.query gives: [ok, rows]
    expected_categories,  \* keys of categories.json, in file order
    report,               \* the dict check_country_categories returned
    report_again,         \* the dict a second call on the same data returned
    status_call,          \* one call of get_status_emoji: arguments and result
    \* ---- transport
    response,             \* the last subprocess result: [rc, stdout]
    classified,           \* how the last response was classified
    page_requests,        \* run_curl_for_query calls so far, per country
    \* ---- scrape_category (locals of the running call)
    page,                 \* loop variable of the page loop
    all_products,         \* accumulated products
    pages_requested,      \* requests issued by this call, each with its result
    page_delays,          \* time.sleep(DELAY_BETWEEN_PAGES_SECONDS) calls of this call
    csv_arg,              \* products handed to save_to_csv by this call
    bq_arg,               \* products handed to upload_to_bigquery by this call
    cat_result,           \* (status, count) returned by this call
    \* ---- scrape_country (locals of the running call)
    country_key,          \* the country being scraped
    bq_client,            \* whether a BigQuery client was given (truthy)
    categories,           \* the category mapping given to the call
    i,                    \* loop index over the categories (1-based)
    total_products,
    successful_categories,
    cat_results,          \* what each finished scrape_category call gave
    category_delays,      \* time.sleep(DELAY_BETWEEN_CATEGORIES_SECONDS) calls
    country_result,       \* (success, categories, products) returned
    prompts,              \* input() calls of this call, with the answers
    probe_class,          \* how validate_curl_command classified its probe ("none": not sent)
    today_queries,        \* COUNT queries check_today_run sent in this call
    \* ---- main
    preflight,            \* pre-flight checks run, in order, with their outcome
    country_returns,      \* scrape_country results so far, in call order
    exit_code,            \* sys.exit code, -1 while running / returned normally
    country_results,      \* verification reports, in call order
    verification_log,     \* verification functions called, in call order
    \* ---- collaborators
    csv_files,            \* file sink: rows written per country and category
    bq_table,             \* warehouse: today's rows per country and category
    uploaded,             \* rows this run inserted, per country and category
    \* ---- the calendar day of the rows (its own specification, SpecDay)
    now,                  \* the clock: hours since 00:00 UTC of day 0, and the
                          \* offset of the local zone from UTC in hours
    stamped,              \* the uploads made: the day in scraped_at, and rows
    day_seen              \* the guard checks and reconciliations made

vars == <<pc, query_result, expected_categories, report, report_again, status_call,
          response, classified, page_requests, prompts, probe_class, today_queries, verification_log, preflight,
          page, all_products, pages_requested, page_delays,
          csv_arg, bq_arg, cat_result,
          country_key, bq_client, categories, i, total_products, successful_categories,
          cat_results, category_delays, country_result,
          country_returns, exit_code, country_results, csv_files, bq_table,
          uploaded, now, stamped, day_seen>>

verify_vars   == <<query_result, expected_categories, report, report_again, status_call>>
transport_vars == <<response, classified, page_requests>>
category_vars == <<page, all_products, pages_requested, page_delays,
                   csv_arg, bq_arg, cat_result>>
country_vars  == <<country_key, bq_client, categories, i, total_products,
                   successful_categories, cat_results, category_delays,
                   country_result, prompts, probe_class, today_queries>>
main_vars     == <<preflight, country_returns, exit_code, country_results,
                   verification_log>>
day_vars      == <<now, stamped, day_seen>>
sink_vars     == <<csv_files, bq_table, uploaded, day_vars>>

(***************************************************************************)
(* Program constants.                                                      *)
(***************************************************************************)
TARGET_PRODUCTS_PER_CATEGORY == 50
MAX_PAGES_TO_SCRAPE == 2
MIN_PRODUCTS_PER_CATEGORY == 30

COUNTRIES == <<"thailand", "indonesia", "malaysia">>

(***************************************************************************)
(* Bounds of the model.                                                    *)
(***************************************************************************)
\* number of categories in categories.json for a scrape run
NumCategories == 2
\* number of categories in categories.json for a run of main
MainNumCategories == 2
\* longest stdout, in tokens, given to the classifiers in SpecClassify
MaxBodyLen == 3
\* largest categories_done and expected_total given to get_status_emoji
MaxStatusCategories == 3
\* last hour of the clock of SpecDay, in hours since 00:00 UTC of day 0
MaxHour == 48
\* uploads and checks (guard or reconciliation) in one behaviour of SpecDay
MaxUploads == 1
MaxChecks == 2

(***************************************************************************)
(* Generic helpers.                                                        *)
(***************************************************************************)
Range(s) == {s[k] : k \in DOMAIN s}

RECURSIVE SumSeq(_)
SumSeq(s) == IF s = <<>> THEN 0 ELSE Head(s) + SumSeq(Tail(s))

RECURSIVE SumOver(_, _)
SumOver(f, S) ==
    IF S = {} THEN 0
    ELSE LET x == CHOOSE y \in S : TRUE IN f[x] + SumOver(f, S \ {x})

\* sequences over S without repetition (the key orders of a dict over S)
SeqsNoDup(S) ==
    UNION {{s \in [1..n -> S] : \A a, b \in 1..n : a # b => s[a] # s[b]}
           : n \in 0..Cardinality(S)}

(***************************************************************************)
(* verify.py: the reconciliation.                                          *)
(***************************************************************************)
CategoryNames == {"Hair Care", "Electronics", "Fashion"}
RowCounts == {1, 25, 29, 30, 45}

\* results of the GROUP BY query: one row per category that has rows today
QueryRows ==
    UNION {{[k \in 1..Len(ns) |-> [category_name |-> ns[k], product_count |-> cs[k]]]
            : cs \in [1..Len(ns) -> RowCounts]}
           : ns \in SeqsNoDup(CategoryNames)}

NoReport == [country_key |-> "none", total_products |-> 0, categories_done |-> 0,
             missing_categories |-> <<>>, low_count_categories |-> <<>>,
             error |-> FALSE]

scraped_data_mut_drop_last(rows) ==
    [n \in {rows[k].category_name : k \in 1..(Len(rows) - 1)} |->
        LET last == CHOOSE k \in 1..(Len(rows) - 1) :
                        /\ rows[k].category_name = n
                        /\ \A m \in 1..(Len(rows) - 1) :
                               rows[m].category_name = n => m <= k
        IN rows[last].product_count]

\* {row.category_name: row.product_count for row in results}
scraped_data_of(rows) ==
    [n \in {rows[k].category_name : k \in DOMAIN rows} |->
        LET last == CHOOSE k \in DOMAIN rows :
                        /\ rows[k].category_name = n
                        /\ \A m \in DOMAIN rows :
                               rows[m].category_name = n => m <= k
        IN rows[last].product_count]

\* the loop over expected_categories.keys(): the missing branch
missing_categories_of(expected, scraped_data) ==
    SelectSeq(expected, LAMBDA c : c \notin DOMAIN scraped_data)

low_count_mut_le(expected, scraped_data) ==
    LET low == SelectSeq(expected,
                   LAMBDA c : c \in DOMAIN scraped_data
                              /\ scraped_data[c] <= MIN_PRODUCTS_PER_CATEGORY)
    IN [k \in 1..Len(low) |-> <<low[k], scraped_data[low[k]]>>]

low_count_mut_small_only(expected, scraped_data) ==
    LET low == SelectSeq(expected,
                   LAMBDA c : c \in DOMAIN scraped_data
                              /\ scraped_data[c] < MIN_PRODUCTS_PER_CATEGORY - 10)
    IN [k \in 1..Len(low) |-> <<low[k], scraped_data[low[k]]>>]

low_count_mut_get0(expected, scraped_data) ==
    LET cnt(c) == IF c \in DOMAIN scraped_data THEN scraped_data[c] ELSE 0
        low == SelectSeq(expected, LAMBDA c : cnt(c) < MIN_PRODUCTS_PER_CATEGORY)
    IN [k \in 1..Len(low) |-> <<low[k], cnt(low[k])>>]

\* the loop over expected_categories.keys(): the low-count branch
low_count_categories_of(expected, scraped_data) ==
    LET low == SelectSeq(expected,
                   LAMBDA c : c \in DOMAIN scraped_data
                              /\ scraped_data[c] < MIN_PRODUCTS_PER_CATEGORY)
    IN [k \in 1..Len(low) |-> <<low[k], scraped_data[low[k]]>>]

categories_done_mut_expected(expected, scraped_data) ==
    Cardinality(DOMAIN scraped_data \cap Range(expected))

\* len(scraped_data)
categories_done_of(expected, scraped_data) ==
    Cardinality(DOMAIN scraped_data)

check_country_mut_error_nothing_missing(q, key, expected) ==
    IF q.ok
    THEN LET scraped_data == scraped_data_of(q.rows)
         IN [country_key |-> key,
             total_products |-> SumOver(scraped_data, DOMAIN scraped_data),
             categories_done |-> categories_done_of(expected, scraped_data),
             missing_categories |-> missing_categories_of(expected, scraped_data),
             low_count_categories |-> low_count_categories_of(expected, scraped_data),
             error |-> FALSE]
    ELSE [country_key |-> key,
          total_products |-> 0,
          categories_done |-> 0,
          missing_categories |-> <<>>,
          low_count_categories |-> <<>>,
          error |-> TRUE]

\* the report; error stands for the presence of the 'error' entry
check_country_categories(q, key, expected) ==
    IF q.ok
    THEN LET scraped_data == scraped_data_of(q.rows)
         IN [country_key |-> key,
             total_products |-> SumOver(scraped_data, DOMAIN scraped_data),
             categories_done |-> categories_done_of(expected, scraped_data),
             missing_categories |-> missing_categories_of(expected, scraped_data),
             low_count_categories |-> low_count_categories_of(expected, scraped_data),
             error |-> FALSE]
    ELSE [country_key |-> key,
          total_products |-> 0,
          categories_done |-> 0,
          missing_categories |-> expected,
          low_count_categories |-> <<>>,
          error |-> TRUE]

(***************************************************************************)
(* Transport responses.  The text of stdout is a sequence of tokens: a     *)
(* whitespace character, the character '<', a run of other text that is    *)
(* not JSON, or the text of one JSON object.  A JSON object is given by    *)
(* what json.loads makes of it: its "ret" entry, whether it has            *)
(* "mods"/"listItems", and the listing records (each stands for its        *)
(* itemId).  A status string of "ret" is a sequence of words.              *)
(***************************************************************************)
SENTINEL == "FAIL_SYS_USER_VALIDATE"

RetAbsent   == [kind |-> "absent", val |-> <<>>]
RetList(l)  == [kind |-> "list", val |-> l]
RetStr(s)   == [kind |-> "str", val |-> <<s>>]

Doc(ret, has_mods, items) == [ret |-> ret, has_mods |-> has_mods, items |-> items]
NoData == [ret |-> [kind |-> "none", val |-> <<>>], has_mods |-> FALSE, items |-> <<>>]

Ws        == [t |-> "ws", v |-> NoData]
Lt        == [t |-> "lt", v |-> NoData]
Text      == [t |-> "text", v |-> NoData]
Json(doc) == [t |-> "json", v |-> doc]

\* listing records off+1 .. off+n
Items(off, n) == [k \in 1..n |-> off + k]

StatusValidate    == <<SENTINEL>>
StatusValidateMsg == <<SENTINEL, "::", "msg">>
StatusOk          == <<"SUCCESS", "::", "ok">>
StatusOther       == <<"RGV587_ERROR", "::", "SM">>

Result(timed_out, returncode, stdout) ==
    [timed_out |-> timed_out, returncode |-> returncode, stdout |-> stdout]
Ok(stdout) == Result(FALSE, 0, stdout)

\* ---- Python string and JSON primitives on the token text
RECURSIVE lstrip(_)
lstrip(s) == IF s # <<>> /\ Head(s).t = "ws" THEN lstrip(Tail(s)) ELSE s

RECURSIVE rstrip(_)
rstrip(s) ==
    IF s # <<>> /\ s[Len(s)].t = "ws" THEN rstrip(SubSeq(s, 1, Len(s) - 1)) ELSE s

strip(s) == rstrip(lstrip(s))

startswith_lt(s) == s # <<>> /\ Head(s).t = "lt"

\* json.loads: surrounding whitespace is allowed, anything else around the
\* one JSON value is a JSONDecodeError
json_loads(s) ==
    LET body == strip(s)
    IN IF Len(body) = 1 /\ body[1].t = "json"
       THEN [ok |-> TRUE, data |-> body[1].v]
       ELSE [ok |-> FALSE, data |-> NoData]

\* str(list_of_strings): "['a', 'b']" as words
RECURSIVE str_of_elems(_)
str_of_elems(l) ==
    IF l = <<>> THEN <<>>
    ELSE <<"'">> \o Head(l) \o <<"'">>
         \o (IF Tail(l) = <<>> THEN <<>> ELSE <<", ">> \o str_of_elems(Tail(l)))

str_of_list(l) == <<"[">> \o str_of_elems(l) \o <<"]">>

\* needle in text
contains(text, needle) == \E k \in DOMAIN text : text[k] = needle

\* truthiness of what run_curl_for_query returned: None and {} are falsy
truthy(data) == data.ret.kind \in {"list", "str"} \/ data.has_mods

has_captcha_mut_first(data) ==
    /\ data.ret.kind = "list"
    /\ data.ret.val # <<>>
    /\ data.ret.val[1] = StatusValidate

\* "ret" in data and isinstance(data["ret"], list)
\*     and "FAIL_SYS_USER_VALIDATE" in str(data["ret"])
has_captcha(data) ==
    /\ data.ret.kind = "list"
    /\ contains(str_of_list(data.ret.val), SENTINEL)

\* data.get("mods", {}).get("listItems", []) mapped to products; a product
\* stands for its item_id
parse_products(data) ==
    IF ~truthy(data) THEN <<>>
    ELSE IF data.has_mods THEN data.items ELSE <<>>

run_curl_mut_parse_first(r) ==
    IF r.timed_out THEN [cls |-> "TransportError", data |-> NoData]
    ELSE IF r.returncode # 0 THEN [cls |-> "TransportError", data |-> NoData]
    ELSE IF strip(r.stdout) = <<>> THEN [cls |-> "Empty", data |-> NoData]
    ELSE IF ~json_loads(r.stdout).ok THEN [cls |-> "ParseError", data |-> NoData]
    ELSE IF startswith_lt(strip(r.stdout)) THEN [cls |-> "Blocked", data |-> NoData]
    ELSE [cls |-> "ValidJSON", data |-> json_loads(r.stdout).data]

\* run_curl_for_query after the request was sent: None (here NoData) with the
\* reason it printed, or the parsed data
run_curl_for_query(r) ==
    IF r.timed_out THEN [cls |-> "TransportError", data |-> NoData]
    ELSE IF r.returncode # 0 THEN [cls |-> "TransportError", data |-> NoData]
    ELSE IF strip(r.stdout) = <<>> THEN [cls |-> "Empty", data |-> NoData]
    ELSE IF startswith_lt(strip(r.stdout)) THEN [cls |-> "Blocked", data |-> NoData]
    ELSE IF ~json_loads(r.stdout).ok THEN [cls |-> "ParseError", data |-> NoData]
    ELSE [cls |-> "ValidJSON", data |-> json_loads(r.stdout).data]

validate_mut_accept_challenge(r) ==
    IF r.timed_out THEN [cls |-> "TransportError", valid |-> FALSE]
    ELSE IF r.returncode # 0 THEN [cls |-> "TransportError", valid |-> FALSE]
    ELSE IF strip(r.stdout) = <<>> THEN [cls |-> "Empty", valid |-> FALSE]
    ELSE IF startswith_lt(strip(r.stdout)) THEN [cls |-> "Blocked", valid |-> FALSE]
    ELSE IF ~json_loads(r.stdout).ok THEN [cls |-> "ParseError", valid |-> FALSE]
    ELSE IF has_captcha(json_loads(r.stdout).data)
         THEN [cls |-> "ChallengeDetected", valid |-> TRUE]
    ELSE [cls |-> "Success", valid |-> TRUE]

validate_mut_parse_first(r) ==
    IF r.timed_out THEN [cls |-> "TransportError", valid |-> FALSE]
    ELSE IF r.returncode # 0 THEN [cls |-> "TransportError", valid |-> FALSE]
    ELSE IF strip(r.stdout) = <<>> THEN [cls |-> "Empty", valid |-> FALSE]
    ELSE IF ~json_loads(r.stdout).ok THEN [cls |-> "ParseError", valid |-> FALSE]
    ELSE IF has_captcha(json_loads(r.stdout).data)
         THEN [cls |-> "ChallengeDetected", valid |-> FALSE]
    ELSE IF startswith_lt(strip(r.stdout)) THEN [cls |-> "Blocked", valid |-> FALSE]
    ELSE [cls |-> "Success", valid |-> TRUE]

\* validate_curl_command after the probe request was sent: the boolean it
\* returns, with the reason it printed
validate_curl_command(r) ==
    IF r.timed_out THEN [cls |-> "TransportError", valid |-> FALSE]
    ELSE IF r.returncode # 0 THEN [cls |-> "TransportError", valid |-> FALSE]
    ELSE IF strip(r.stdout) = <<>> THEN [cls |-> "Empty", valid |-> FALSE]
    ELSE IF startswith_lt(strip(r.stdout)) THEN [cls |-> "Blocked", valid |-> FALSE]
    ELSE IF ~json_loads(r.stdout).ok THEN [cls |-> "ParseError", valid |-> FALSE]
    ELSE IF has_captcha(json_loads(r.stdout).data)
         THEN [cls |-> "ChallengeDetected", valid |-> FALSE]
    ELSE [cls |-> "Success", valid |-> TRUE]

(***************************************************************************)
(* Values of the variables before anything has run.                        *)
(***************************************************************************)
CategoryOrder == <<"Hair Care", "Electronics", "Fashion", "Skin Care", "Baby Products">>
\* categories.json as load_categories gives it to a scrape run
Categories == SubSeq(CategoryOrder, 1, NumCategories)
MainCategories == SubSeq(CategoryOrder, 1, MainNumCategories)
AllCategories ==
    IF NumCategories >= MainNumCategories THEN Categories ELSE MainCategories

NoResponse == Result(FALSE, 0, <<>>)
NoClass == [run |-> "none", page |-> "none", validate |-> "none"]
NotCalled == [called |-> FALSE, products |-> <<>>]
NoCatResult == [status |-> "NONE", count |-> 0]
NoCountryResult == [returned |-> FALSE, success |-> FALSE, categories |-> 0,
                    products |-> 0, reason |-> "none"]
EmptyFiles == [c \in Range(COUNTRIES) |-> [n \in Range(AllCategories) |-> -1]]
EmptyTable == [c \in Range(COUNTRIES) |-> [n \in Range(AllCategories) |-> 0]]

NoStatusCall == [categories_done |-> 0, total_products |-> 0, missing_cats |-> <<>>,
                 low_cats |-> <<>>, expected_total |-> 0, status |-> "none"]
NoRequests == [c \in Range(COUNTRIES) |-> 0]

NoClock == [utc_hour |-> 0, utc_offset |-> 0]

InitWarehouse ==
    /\ uploaded = EmptyTable
    /\ now = NoClock
    /\ stamped = {}
    /\ day_seen = {}

InitVerify ==
    /\ query_result = [ok |-> TRUE, rows |-> <<>>]
    /\ expected_categories = <<>>
    /\ report = NoReport
    /\ report_again = NoReport
    /\ status_call = NoStatusCall

InitTransport ==
    /\ response = NoResponse
    /\ classified = NoClass
    /\ page_requests = NoRequests

InitCategoryLocals ==
    /\ page = 1
    /\ all_products = <<>>
    /\ pages_requested = <<>>
    /\ page_delays = 0
    /\ csv_arg = NotCalled
    /\ bq_arg = NotCalled
    /\ cat_result = NoCatResult

InitCountryLocals ==
    /\ total_products = 0
    /\ successful_categories = 0
    /\ cat_results = <<>>
    /\ category_delays = 0
    /\ country_result = NoCountryResult
    /\ prompts = <<>>
    /\ probe_class = "none"
    /\ today_queries = 0

InitMain ==
    /\ preflight = <<>>
    /\ country_returns = <<>>
    /\ exit_code = -1
    /\ country_results = <<>>
    /\ verification_log = <<>>

(***************************************************************************)
(* SpecReconcile: check_country_categories on one query result.            *)
(***************************************************************************)
InitReconcile ==
    /\ pc = "reconcile"
    /\ query_result \in [ok : BOOLEAN, rows : QueryRows]
    /\ expected_categories \in SeqsNoDup(CategoryNames)
    /\ report = NoReport
    /\ report_again = NoReport
    /\ status_call = NoStatusCall
    /\ InitTransport /\ InitCategoryLocals /\ InitCountryLocals /\ InitMain
    /\ country_key = "none" /\ bq_client = TRUE /\ categories = <<>> /\ i = 0
    /\ csv_files = EmptyFiles /\ bq_table = EmptyTable /\ InitWarehouse

Reconcile ==
    /\ pc = "reconcile"
    /\ \E key \in Range(COUNTRIES) :
           report' = check_country_categories(query_result, key, expected_categories)
    /\ pc' = "reconciled"
    /\ UNCHANGED <<query_result, expected_categories, report_again, status_call,
                   transport_vars, category_vars, country_vars, main_vars, sink_vars>>

\* the orders in which n rows can be presented
RowOrders(n) == {f \in [1..n -> 1..n] : \A a, b \in 1..n : a # b => f[a] # f[b]}

\* a second call for the same country on the same day: the same rows, in
\* whatever order the warehouse presents them this time
ReconcileAgain ==
    /\ pc = "reconciled"
    /\ \E f \in RowOrders(Len(query_result.rows)) :
        LET again == [ok |-> query_result.ok,
                      rows |-> [k \in DOMAIN query_result.rows |-> query_result.rows[f[k]]]]
        IN /\ query_result' = again
           /\ report_again' = check_country_categories(again, report.country_key,
                                                        expected_categories)
    /\ pc' = "reconciled_again"
    /\ UNCHANGED <<expected_categories, report, status_call,
                   transport_vars, category_vars, country_vars, main_vars, sink_vars>>

NextReconcile ==
    \/ Reconcile
    \/ ReconcileAgain

SpecReconcile == InitReconcile /\ [][NextReconcile]_vars

(***************************************************************************)
(* SpecClassify: the two classifiers on one transport response.            *)
(***************************************************************************)
ClassifyDocs ==
    { Doc(RetAbsent, TRUE, Items(0, 2)),
      Doc(RetList(<<StatusOther, StatusValidateMsg>>), TRUE, Items(0, 2)),
      Doc(RetAbsent, FALSE, <<>>) }

ClassifyTokens == {Ws, Lt, Text} \cup {Json(d) : d \in ClassifyDocs}

ClassifyBodies == UNION {[1..n -> ClassifyTokens] : n \in 0..MaxBodyLen}

ClassifyResponses ==
    {Result(FALSE, rc, b) : rc \in {0, 1}, b \in ClassifyBodies}
    \cup {Result(TRUE, 0, b) : b \in ClassifyBodies}

\* the variant of one page response as scrape_category treats it
page_class(r) ==
    LET res == run_curl_for_query(r)
    IN IF res.cls # "ValidJSON" THEN res.cls
       ELSE IF ~truthy(res.data) THEN "EmptyData"
       ELSE IF has_captcha(res.data) THEN "ChallengeDetected"
       ELSE "Success"

InitClassify ==
    /\ pc = "classify"
    /\ response \in ClassifyResponses
    /\ classified = NoClass
    /\ page_requests = NoRequests
    /\ InitVerify /\ InitCategoryLocals /\ InitCountryLocals /\ InitMain
    /\ country_key = "none" /\ bq_client = TRUE /\ categories = <<>> /\ i = 0
    /\ csv_files = EmptyFiles /\ bq_table = EmptyTable /\ InitWarehouse

Classify ==
    /\ pc = "classify"
    /\ classified' = [run |-> run_curl_for_query(response).cls,
                      page |-> page_class(response),
                      validate |-> validate_curl_command(response).cls]
    /\ pc' = "classified"
    /\ UNCHANGED <<response, page_requests, verify_vars, category_vars, country_vars,
                   main_vars, sink_vars>>

NextClassify == Classify

SpecClassify == InitClassify /\ [][NextClassify]_vars

(***************************************************************************)
(* scrape_category.                                                        *)
(***************************************************************************)
PageSizes == {0, 10, 40, 60}
PageOffsets == {0, 30}

Listing(off, n) == Doc(RetAbsent, TRUE, Items(off, n))
CaptchaOnly     == Doc(RetList(<<StatusValidate>>), FALSE, <<>>)
CaptchaListing  == Doc(RetList(<<StatusOther, StatusValidateMsg>>), TRUE, Items(0, 40))
OkListing       == Doc(RetList(<<StatusOk>>), TRUE, Items(0, 40))
RetStrListing   == Doc(RetStr(StatusValidate), TRUE, Items(0, 10))
EmptyObject     == Doc(RetAbsent, FALSE, <<>>)

\* responses a page request of SpecCategory can get
CategoryResponses ==
    { Result(TRUE, 0, <<>>),
      Result(FALSE, 1, <<Json(Listing(0, 40))>>),
      Ok(<<>>), Ok(<<Ws>>),
      Ok(<<Lt, Text>>), Ok(<<Ws, Lt, Json(CaptchaListing)>>), Ok(<<Lt, Json(Listing(0, 40))>>),
      Ok(<<Text>>), Ok(<<Json(Listing(0, 10)), Text>>),
      Ok(<<Json(EmptyObject)>>),
      Ok(<<Ws, Json(OkListing), Ws>>),
      Ok(<<Json(CaptchaOnly)>>), Ok(<<Json(CaptchaListing)>>),
      Ok(<<Json(RetStrListing)>>) }
    \cup {Ok(<<Json(Listing(off, n))>>) : off \in PageOffsets, n \in PageSizes}

\* responses a page request of SpecCountry can get
CountryResponses ==
    { Result(FALSE, 1, <<>>),
      Ok(<<Lt, Text>>),
      Ok(<<Json(CaptchaListing)>>),
      Ok(<<Json(Listing(0, 0))>>),
      Ok(<<Json(Listing(0, 10))>>),
      Ok(<<Json(Listing(0, 40))>>),
      Ok(<<Json(Listing(0, 60))>>) }

\* responses a page request of Spec can get
MainResponses ==
    { Ok(<<Json(CaptchaListing)>>),
      Ok(<<Json(Listing(0, 40))>>) }

\* outcomes of client.insert_rows_json on n rows: all rows inserted, row
\* errors with some of the rows inserted, or an exception
UploadOutcomes(n) ==
    { [kind |-> "ok", inserted |-> n],
      [kind |-> "errors", inserted |-> 0],
      [kind |-> "errors", inserted |-> n - 1],
      [kind |-> "exception", inserted |-> 0] }

\* the outcome kinds in SpecCategory and SpecCountry, and in Spec
UploadKinds == {"ok", "errors", "exception"}
MainUploadKinds == {"ok"}

scrape_page_mut_no_target(all, pg, r) ==
    LET res == run_curl_for_query(r)
        products == parse_products(res.data)
    IN IF ~truthy(res.data) THEN [next |-> "break", all_products |-> all]
       ELSE IF has_captcha(res.data) THEN [next |-> "captcha", all_products |-> all]
       ELSE IF products = <<>> THEN [next |-> "break", all_products |-> all]
       ELSE IF pg < MAX_PAGES_TO_SCRAPE
            THEN [next |-> "sleep", all_products |-> all \o products]
       ELSE [next |-> "exhausted", all_products |-> all \o products]

scrape_page_mut_captcha_late(all, pg, r) ==
    LET res == run_curl_for_query(r)
        products == parse_products(res.data)
    IN IF ~truthy(res.data) THEN [next |-> "break", all_products |-> all]
       ELSE IF has_captcha(res.data) THEN [next |-> "captcha", all_products |-> all \o products]
       ELSE IF products = <<>> THEN [next |-> "break", all_products |-> all]
       ELSE IF Len(all \o products) >= TARGET_PRODUCTS_PER_CATEGORY
            THEN [next |-> "break", all_products |-> all \o products]
       ELSE IF pg < MAX_PAGES_TO_SCRAPE
            THEN [next |-> "sleep", all_products |-> all \o products]
       ELSE [next |-> "exhausted", all_products |-> all \o products]

scrape_page_mut_skip_on_failure(all, pg, r) ==
    LET res == run_curl_for_query(r)
        products == parse_products(res.data)
    IN IF ~truthy(res.data) \/ (~has_captcha(res.data) /\ products = <<>>)
       THEN IF pg < MAX_PAGES_TO_SCRAPE
            THEN [next |-> "sleep", all_products |-> all]
            ELSE [next |-> "exhausted", all_products |-> all]
       ELSE IF has_captcha(res.data) THEN [next |-> "captcha", all_products |-> all]
       ELSE IF Len(all \o products) >= TARGET_PRODUCTS_PER_CATEGORY
            THEN [next |-> "break", all_products |-> all \o products]
       ELSE IF pg < MAX_PAGES_TO_SCRAPE
            THEN [next |-> "sleep", all_products |-> all \o products]
       ELSE [next |-> "exhausted", all_products |-> all \o products]

scrape_page_mut_dedup(all, pg, r) ==
    LET res == run_curl_for_query(r)
        products == parse_products(res.data)
        fresh == SelectSeq(products, LAMBDA x : \A k \in DOMAIN all : all[k] # x)
    IN IF ~truthy(res.data) THEN [next |-> "break", all_products |-> all]
       ELSE IF has_captcha(res.data) THEN [next |-> "captcha", all_products |-> all]
       ELSE IF products = <<>> THEN [next |-> "break", all_products |-> all]
       ELSE IF Len(all \o fresh) >= TARGET_PRODUCTS_PER_CATEGORY
            THEN [next |-> "break", all_products |-> all \o fresh]
       ELSE IF pg < MAX_PAGES_TO_SCRAPE
            THEN [next |-> "sleep", all_products |-> all \o fresh]
       ELSE [next |-> "exhausted", all_products |-> all \o fresh]

\* one iteration of the page loop on the result r of the request for page
\* pg, with all the products accumulated before it: how the iteration ends
\* (break, return "CAPTCHA", sleep and go on, or the range is exhausted)
\* and the products accumulated after it
scrape_page(all, pg, r) ==
    LET res == run_curl_for_query(r)
        products == parse_products(res.data)
    IN IF ~truthy(res.data) THEN [next |-> "break", all_products |-> all]
       ELSE IF has_captcha(res.data) THEN [next |-> "captcha", all_products |-> all]
       ELSE IF products = <<>> THEN [next |-> "break", all_products |-> all]
       ELSE IF Len(all \o products) >= TARGET_PRODUCTS_PER_CATEGORY
            THEN [next |-> "break", all_products |-> all \o products]
       ELSE IF pg < MAX_PAGES_TO_SCRAPE
            THEN [next |-> "sleep", all_products |-> all \o products]
       ELSE [next |-> "exhausted", all_products |-> all \o products]

captcha_return_mut_zero(all) == [status |-> "CAPTCHA", count |-> 0]

\* return "CAPTCHA", len(all_products)
captcha_return(all) == [status |-> "CAPTCHA", count |-> Len(all)]

first_request_mut_always(pg) == TRUE

\* first_request=str(page==1).lower() in the URL of the request
first_request_of(pg) == pg = 1

\* one turn of the loop "for page in range(1, MAX_PAGES_TO_SCRAPE + 1)":
\* the request, its classification, and what the loop does with it
FetchPage(Responses) ==
    /\ pc = "fetch"
    /\ \E r \in Responses :
        LET step == scrape_page(all_products, page, r)
        IN /\ response' = r
           /\ classified' = [run |-> run_curl_for_query(r).cls,
                             page |-> page_class(r),
                             validate |-> "none"]
           /\ pages_requested' = Append(pages_requested,
                  [page |-> page, first_request |-> first_request_of(page), result |-> r])
           /\ page_requests' = [page_requests EXCEPT ![country_key] = @ + 1]
           /\ all_products' = step.all_products
           /\ CASE step.next = "captcha" ->
                      /\ cat_result' = captcha_return(step.all_products)
                      /\ pc' = "category_returned"
                [] step.next = "sleep" ->
                      /\ pc' = "page_delay"
                      /\ UNCHANGED cat_result
                [] OTHER ->
                      /\ pc' = "save"
                      /\ UNCHANGED cat_result
    /\ UNCHANGED <<page, page_delays, csv_arg, bq_arg, verify_vars, country_vars,
                   main_vars, sink_vars>>

PageDelay_mut_twice ==
    /\ pc = "page_delay"
    /\ page_delays' = page_delays + 2
    /\ page' = page + 1
    /\ pc' = "fetch"
    /\ UNCHANGED <<all_products, pages_requested, csv_arg, bq_arg, cat_result,
                   verify_vars, transport_vars, country_vars, main_vars, sink_vars>>

\* time.sleep(DELAY_BETWEEN_PAGES_SECONDS), then the next turn of the loop
PageDelay ==
    /\ pc = "page_delay"
    /\ page_delays' = page_delays + 1
    /\ page' = page + 1
    /\ pc' = "fetch"
    /\ UNCHANGED <<all_products, pages_requested, csv_arg, bq_arg, cat_result,
                   verify_vars, transport_vars, country_vars, main_vars, sink_vars>>

\* after the loop: save_to_csv, upload_to_bigquery, return "SUCCESS".
\* save_to_csv raising (the directory or the file cannot be written) leaves
\* scrape_category by the exception, with no row written.
SaveAndUpload(FileOutcomes, Kinds) ==
    /\ pc = "save"
    /\ LET cat == categories[i]
           n == Len(all_products)
       IN \E file_ok \in FileOutcomes :
           /\ csv_arg' = [called |-> TRUE, products |-> all_products]
           /\ IF ~file_ok
              THEN /\ pc' = "category_raised"
                   /\ UNCHANGED <<bq_arg, cat_result, csv_files, bq_table, uploaded>>
              ELSE /\ csv_files' = [csv_files EXCEPT ![country_key][cat] = n]
                   /\ cat_result' = [status |-> "SUCCESS", count |-> n]
                   /\ pc' = "category_returned"
                   /\ IF bq_client /\ all_products # <<>>
                      THEN /\ bq_arg' = [called |-> TRUE, products |-> all_products]
                           /\ \E o \in {u \in UploadOutcomes(n) : u.kind \in Kinds} :
                                  /\ bq_table' = [bq_table EXCEPT
                                         ![country_key][cat] = @ + o.inserted]
                                  /\ uploaded' = [uploaded EXCEPT
                                         ![country_key][cat] = @ + o.inserted]
                      ELSE UNCHANGED <<bq_arg, bq_table, uploaded>>
    /\ UNCHANGED <<page, all_products, pages_requested, page_delays, verify_vars,
                   transport_vars, country_vars, main_vars, day_vars>>

InitCategory ==
    /\ pc = "fetch"
    /\ InitVerify /\ InitTransport /\ InitCategoryLocals /\ InitCountryLocals /\ InitMain
    /\ country_key = "thailand"
    /\ bq_client \in BOOLEAN
    /\ categories = Categories
    /\ i = 1
    /\ csv_files = EmptyFiles /\ bq_table = EmptyTable /\ InitWarehouse

NextCategory ==
    \/ FetchPage(CategoryResponses)
    \/ PageDelay
    \/ SaveAndUpload(BOOLEAN, UploadKinds)

SpecCategory == InitCategory /\ [][NextCategory]_vars

(***************************************************************************)
(* scrape_country.                                                         *)
(***************************************************************************)
\* return success, successful_categories, total_products; reason names the
\* return statement taken (each prints its own message)
Returned(success, ncat, nprod, reason) ==
    [returned |-> TRUE, success |-> success, categories |-> ncat,
     products |-> nprod, reason |-> reason]

\* warehouses a run can start from: for each country either no row for
\* today or the rows of an earlier run of today
PriorRows(S) ==
    [c \in Range(COUNTRIES) |->
        [n \in Range(AllCategories) |-> IF c \in S /\ n = CategoryOrder[1] THEN 40 ELSE 0]]

\* the warehouse after an earlier run of today that was halted: it uploaded
\* 20 products of the first category (two pages of 10) and nothing else
HaltedRows(key) ==
    [c \in Range(COUNTRIES) |->
        [n \in Range(AllCategories) |-> IF c = key /\ n = CategoryOrder[1] THEN 20 ELSE 0]]

\* SELECT COUNT(*) ... WHERE DATE(scraped_at) = today
TodayCount(key) == SumOver(bq_table[key], DOMAIN bq_table[key])

\* check_today_run: False without a client or when the query raises
check_today_run(key, query_ok) == bq_client /\ query_ok /\ TodayCount(key) > 0

\* an input() call and whether the answer was yes
Asked(question, yes) == [question |-> question, yes |-> yes]

\* the prompt of the duplicate-run guard, when the run goes on past it: it
\* was shown, and answered yes, exactly when check_today_run found rows
guard_prompt(key, query_ok) ==
    IF check_today_run(key, query_ok) THEN <<Asked("continue_anyway", TRUE)>> ELSE <<>>

\* probe responses of validate_curl_command in SpecCountry and in Spec
CountryProbes ==
    { Ok(<<Json(Listing(0, 40))>>), Ok(<<Json(CaptchaOnly)>>), Ok(<<Lt, Text>>),
      Ok(<<Text>>), Ok(<<>>), Result(FALSE, 1, <<>>), Result(TRUE, 0, <<>>) }

MainProbes == { Ok(<<Json(Listing(0, 40))>>), Ok(<<Json(CaptchaOnly)>>), Ok(<<Lt, Text>>) }

\* scrape_country up to the category loop: load_curl_command,
\* validate_curl_command, the duplicate-run guard and the two prompts
BeginCountry(Probes) ==
    /\ pc = "call_country"
    /\ \E curl_file \in {"missing", "empty", "present"}, probe \in Probes,
          query_ok \in BOOLEAN, continue_anyway \in BOOLEAN, start \in BOOLEAN :
        LET v == validate_curl_command(probe)
        IN IF curl_file # "present"
           THEN /\ country_result' = Returned(FALSE, 0, 0, "curl_missing")
                /\ pc' = "country_returned"
                /\ prompts' = <<>>
                /\ probe_class' = "none"
                /\ today_queries' = 0
                /\ UNCHANGED <<transport_vars, i>>
           ELSE /\ response' = probe
                /\ classified' = [run |-> "none", page |-> "none", validate |-> v.cls]
                /\ UNCHANGED page_requests
                /\ probe_class' = v.cls
                \* bq_client and check_today_run(...): one query with a client
                /\ today_queries' = IF v.valid /\ bq_client THEN 1 ELSE 0
                /\ IF ~v.valid
                   THEN /\ country_result' = Returned(FALSE, 0, 0, "curl_invalid")
                        /\ pc' = "country_returned"
                        /\ prompts' = <<>>
                        /\ UNCHANGED i
                   ELSE IF check_today_run(country_key, query_ok) /\ ~continue_anyway
                   THEN /\ country_result' = Returned(TRUE, 0, 0, "already_today")
                        /\ pc' = "country_returned"
                        /\ prompts' = <<Asked("continue_anyway", FALSE)>>
                        /\ UNCHANGED i
                   ELSE IF ~start
                   THEN /\ country_result' = Returned(TRUE, 0, 0, "cancelled")
                        /\ pc' = "country_returned"
                        /\ prompts' = guard_prompt(country_key, query_ok)
                                           \o <<Asked("start", FALSE)>>
                        /\ UNCHANGED i
                   ELSE /\ i' = 1
                        /\ pc' = "call_category"
                        /\ prompts' = guard_prompt(country_key, query_ok)
                                           \o <<Asked("start", TRUE)>>
                        /\ UNCHANGED country_result
    /\ total_products' = 0
    /\ successful_categories' = 0
    /\ cat_results' = <<>>
    /\ category_delays' = 0
    /\ UNCHANGED <<country_key, bq_client, categories, verify_vars, category_vars,
                   main_vars, sink_vars>>

\* the call scrape_category(...) of the loop body: fresh locals
CallCategory ==
    /\ pc = "call_category"
    /\ page' = 1
    /\ all_products' = <<>>
    /\ pages_requested' = <<>>
    /\ page_delays' = 0
    /\ csv_arg' = NotCalled
    /\ bq_arg' = NotCalled
    /\ cat_result' = NoCatResult
    /\ pc' = "fetch"
    /\ UNCHANGED <<verify_vars, transport_vars, country_vars, main_vars, sink_vars>>

after_category_mut_ignore_captcha(res, total, succ, idx, n) ==
    [total |-> total + res.count,
     succ |-> IF res.status = "SUCCESS" /\ res.count > 0 THEN succ + 1 ELSE succ,
     next |-> IF idx < n THEN "delay" ELSE "end"]

after_category_mut_drop_partial(res, total, succ, idx, n) ==
    [total |-> IF res.status = "CAPTCHA" THEN total ELSE total + res.count,
     succ |-> IF res.status = "SUCCESS" /\ res.count > 0 THEN succ + 1 ELSE succ,
     next |-> IF res.status = "CAPTCHA" THEN "halt"
              ELSE IF idx < n THEN "delay" ELSE "end"]

\* the loop body after scrape_category returned res for category idx of n:
\* the new totals and how the body goes on
after_category(res, total, succ, idx, n) ==
    [total |-> total + res.count,
     succ |-> IF res.status = "SUCCESS" /\ res.count > 0 THEN succ + 1 ELSE succ,
     next |-> IF res.status = "SUCCESS" /\ res.count > 0
              THEN (IF idx < n THEN "delay" ELSE "end")
              ELSE IF res.status = "CAPTCHA" THEN "halt"
              ELSE IF idx < n THEN "delay" ELSE "end"]

AfterCategory ==
    /\ pc = "category_returned"
    /\ LET a == after_category(cat_result, total_products, successful_categories,
                               i, Len(categories))
       IN /\ total_products' = a.total
          /\ successful_categories' = a.succ
          /\ cat_results' = Append(cat_results, cat_result)
          /\ CASE a.next = "halt" ->
                     /\ country_result' = Returned(FALSE, a.succ, a.total, "captcha")
                     /\ pc' = "country_returned"
               [] a.next = "delay" ->
                     /\ pc' = "category_delay"
                     /\ UNCHANGED country_result
               [] OTHER ->
                     /\ country_result' = Returned(TRUE, a.succ, a.total, "complete")
                     /\ pc' = "country_returned"
    /\ UNCHANGED <<country_key, bq_client, categories, i, category_delays, prompts, probe_class, today_queries,
                   verify_vars, transport_vars, category_vars, main_vars, sink_vars>>

CategoryRaised_mut_abort ==
    /\ pc = "category_raised"
    /\ cat_results' = Append(cat_results, [status |-> "ERROR", count |-> 0])
    /\ country_result' = Returned(FALSE, successful_categories, total_products, "error")
    /\ pc' = "country_returned"
    /\ UNCHANGED <<country_key, bq_client, categories, i, total_products,
                   successful_categories, category_delays, prompts, probe_class, today_queries,
                   verify_vars, transport_vars, category_vars, main_vars, sink_vars>>

\* except Exception: the error is printed and the loop goes on with the
\* next category (the delay is inside the try block and is skipped)
CategoryRaised ==
    /\ pc = "category_raised"
    /\ cat_results' = Append(cat_results, [status |-> "ERROR", count |-> 0])
    /\ IF i < Len(categories)
       THEN /\ i' = i + 1
            /\ pc' = "call_category"
            /\ UNCHANGED country_result
       ELSE /\ country_result' = Returned(TRUE, successful_categories,
                                          total_products, "complete")
            /\ pc' = "country_returned"
            /\ UNCHANGED i
    /\ UNCHANGED <<country_key, bq_client, categories, total_products,
                   successful_categories, category_delays, prompts, probe_class, today_queries,
                   verify_vars, transport_vars, category_vars, main_vars, sink_vars>>

\* time.sleep(DELAY_BETWEEN_CATEGORIES_SECONDS), then the next category
CategoryDelay ==
    /\ pc = "category_delay"
    /\ category_delays' = category_delays + 1
    /\ i' = i + 1
    /\ pc' = "call_category"
    /\ UNCHANGED <<country_key, bq_client, categories, total_products,
                   successful_categories, cat_results, country_result, prompts, probe_class, today_queries,
                   verify_vars, transport_vars, category_vars, main_vars, sink_vars>>

interrupt_return_mut_count_partial(succ, total, partial) ==
    Returned(FALSE, succ, total + Len(partial), "interrupted")

\* return False, successful_categories, total_products of the except clause;
\* partial is what the interrupted scrape_category call had accumulated
interrupt_return(succ, total, partial) ==
    Returned(FALSE, succ, total, "interrupted")

\* except KeyboardInterrupt: an interrupt that is raised in a call made
\* while the try block of the loop body runs makes scrape_country return
\* at once with the counters as they are.  at names the call: the request
\* or the sleep inside scrape_category, save_to_csv, upload_to_bigquery
\* before and after the insert, the calls that follow the two counter
\* updates, and the sleep between categories.
Interrupted ==
    /\ pc \in {"fetch", "page_delay", "save", "category_returned", "category_delay"}
    /\ LET n == Len(all_products)
           cat == categories[i]
           a == after_category(cat_result, total_products, successful_categories,
                               i, Len(categories))
       IN \E at \in {"scrape_category", "save_to_csv", "upload_to_bigquery",
                     "return", "counted", "sleep"} :
           /\ at = "scrape_category" => pc \in {"fetch", "page_delay"}
           /\ at \in {"save_to_csv", "upload_to_bigquery", "return"} => pc = "save"
           /\ at = "counted" => pc = "category_returned"
           /\ at = "sleep" => pc = "category_delay"
           \* inside scrape_category: the sinks as far as they were reached
           /\ csv_arg' = IF pc = "save" THEN [called |-> TRUE, products |-> all_products]
                          ELSE csv_arg
           /\ csv_files' = IF at \in {"upload_to_bigquery", "return"}
                            THEN [csv_files EXCEPT ![country_key][cat] = n]
                            ELSE csv_files
           /\ bq_arg' = IF at \in {"upload_to_bigquery", "return"}
                            /\ bq_client /\ all_products # <<>>
                         THEN [called |-> TRUE, products |-> all_products]
                         ELSE bq_arg
           /\ bq_table' = IF at = "return" /\ bq_client /\ all_products # <<>>
                           THEN [bq_table EXCEPT ![country_key][cat] = @ + n]
                           ELSE bq_table
           /\ uploaded' = IF at = "return" /\ bq_client /\ all_products # <<>>
                           THEN [uploaded EXCEPT ![country_key][cat] = @ + n]
                           ELSE uploaded
           \* after scrape_category returned: the statements already run
           /\ cat_results' = IF pc = "category_returned"
                              THEN Append(cat_results, cat_result) ELSE cat_results
           /\ total_products' = IF at = "counted" THEN a.total ELSE total_products
           /\ successful_categories' = IF at = "counted"
                                        THEN a.succ ELSE successful_categories
           /\ country_result' = interrupt_return(successful_categories', total_products',
                                                 IF at = "counted" THEN <<>>
                                                 ELSE all_products)
    /\ pc' = "country_returned"
    /\ UNCHANGED <<country_key, bq_client, categories, i, category_delays, prompts, probe_class, today_queries,
                   page, all_products, pages_requested, page_delays, cat_result,
                   verify_vars, transport_vars, main_vars, day_vars>>

NameOrder == <<"Baby Products", "Electronics", "Fashion", "Hair Care", "Skin Care">>

\* the GROUP BY category_name ... ORDER BY category_name query on a table
GroupByQuery(t) ==
    LET names == SelectSeq(NameOrder, LAMBDA n : n \in DOMAIN t /\ t[n] > 0)
    IN [k \in 1..Len(names) |-> [category_name |-> names[k], product_count |-> t[names[k]]]]

\* a reconciliation of the country after scrape_country returned (once):
\* the GROUP BY query on the rows of today and check_country_categories on
\* it.  pc stays at the return of scrape_country.
ReconcileCountry ==
    /\ pc = "country_returned"
    /\ report = NoReport
    /\ \E query_ok \in BOOLEAN :
           report' = check_country_categories(
                         [ok |-> query_ok, rows |-> GroupByQuery(bq_table[country_key])],
                         country_key, categories)
    /\ expected_categories' = categories
    /\ UNCHANGED <<pc, query_result, report_again, status_call, transport_vars,
                   category_vars, country_vars, main_vars, sink_vars>>

InitCountry ==
    /\ pc = "call_country"
    /\ InitVerify /\ InitTransport /\ InitCategoryLocals /\ InitCountryLocals /\ InitMain
    /\ country_key \in Range(COUNTRIES)
    /\ bq_client \in BOOLEAN
    /\ categories = Categories
    /\ i = 0
    /\ csv_files = EmptyFiles
    /\ bq_table \in {PriorRows({}), PriorRows({country_key}), HaltedRows(country_key)}
    /\ InitWarehouse

NextCountry ==
    \/ BeginCountry(CountryProbes)
    \/ CallCategory
    \/ FetchPage(CountryResponses)
    \/ PageDelay
    \/ SaveAndUpload(BOOLEAN, UploadKinds)
    \/ AfterCategory
    \/ CategoryRaised
    \/ CategoryDelay
    \/ Interrupted
    \/ ReconcileCountry

SpecCountry == InitCountry /\ [][NextCountry]_vars

(***************************************************************************)
(* main.                                                                   *)
(***************************************************************************)
\* a pre-flight check that was run and whether it passed
Checked(check, ok) == [check |-> check, ok |-> ok]

\* the pre-flight checks: each failure is sys.exit(1)
Preflight ==
    /\ pc = "main_start"
    /\ \E vpn_ok \in BOOLEAN, categories_ok \in BOOLEAN, bq_ok \in BOOLEAN :
        /\ preflight' =
               IF ~vpn_ok THEN <<Checked("check_vpn", FALSE)>>
               ELSE IF ~categories_ok
               THEN <<Checked("check_vpn", TRUE), Checked("load_categories", FALSE)>>
               ELSE <<Checked("check_vpn", TRUE), Checked("load_categories", TRUE),
                      Checked("init_bigquery", bq_ok)>>
        /\ IF vpn_ok /\ categories_ok /\ bq_ok
           THEN /\ categories' = MainCategories
                /\ bq_client' = TRUE
                /\ country_key' = COUNTRIES[1]
                /\ pc' = "call_country"
                /\ UNCHANGED exit_code
           ELSE /\ exit_code' = 1
                /\ pc' = "exited"
                /\ UNCHANGED <<categories, bq_client, country_key>>
    /\ UNCHANGED <<i, total_products, successful_categories, cat_results,
                   category_delays, country_result, prompts, probe_class, today_queries, country_returns,
                   country_results, verification_log,
                   verify_vars, transport_vars, category_vars, sink_vars>>

main_next_mut_verify_early(result, key) ==
    IF ~result.success THEN "exit" ELSE "verification"

main_next_mut_continue(result, key) ==
    IF key = COUNTRIES[Len(COUNTRIES)] THEN "verification" ELSE "call_country"

main_next_mut_exit_on_empty(result, key) ==
    IF ~result.success \/ result.categories = 0 THEN "exit"
    ELSE IF key = COUNTRIES[Len(COUNTRIES)] THEN "verification"
    ELSE "call_country"

\* what main does with the result of scrape_country(key, ...)
main_next(result, key) ==
    IF ~result.success THEN "exit"
    ELSE IF key = COUNTRIES[Len(COUNTRIES)] THEN "verification"
    ELSE "call_country"

NextCountryKey(key) ==
    COUNTRIES[(CHOOSE k \in DOMAIN COUNTRIES : COUNTRIES[k] = key) + 1]

AfterCountry ==
    /\ pc = "country_returned"
    /\ country_returns' = Append(country_returns, country_result)
    /\ LET next == main_next(country_result, country_key)
       IN CASE next = "exit" ->
                   /\ exit_code' = 1
                   /\ pc' = "exited"
                   /\ UNCHANGED <<country_key, country_result>>
            [] next = "call_country" ->
                   /\ country_key' = NextCountryKey(country_key)
                   /\ country_result' = NoCountryResult
                   /\ pc' = "call_country"
                   /\ UNCHANGED exit_code
            [] OTHER ->
                   /\ pc' = "verification"
                   /\ UNCHANGED <<exit_code, country_key, country_result>>
    /\ UNCHANGED <<bq_client, categories, i, total_products, successful_categories,
                   cat_results, category_delays, prompts, probe_class, today_queries, country_results,
                   verification_log, preflight,
                   verify_vars, transport_vars, category_vars, sink_vars>>

\* the functions the verification block calls when the categories are
\* loaded and there is a client, in call order
VerificationCalls ==
    <<"load_categories_verify", "check_country_categories", "check_country_categories",
      "check_country_categories", "print_dashboard", "print_next_steps">>

\* the verification block at the end of main, and the normal return.
\* raise_at = k > 0: the k-th call raises; except Exception prints the
\* failure and main returns all the same.
Verification ==
    /\ pc = "verification"
    /\ \E loaded \in BOOLEAN, query_ok \in [DOMAIN COUNTRIES -> BOOLEAN],
          raise_at \in 0..Len(VerificationCalls) :
        LET planned == IF loaded /\ bq_client THEN VerificationCalls
                       ELSE SubSeq(VerificationCalls, 1, 1)
            made == IF raise_at = 0 \/ raise_at > Len(planned) THEN planned
                    ELSE SubSeq(planned, 1, raise_at)
            returned == IF raise_at = 0 \/ raise_at > Len(planned) THEN Len(planned)
                        ELSE raise_at - 1
            checked == IF returned - 1 > Len(COUNTRIES) THEN Len(COUNTRIES)
                       ELSE IF returned < 1 THEN 0 ELSE returned - 1
        IN /\ verification_log' = made
           /\ country_results' =
                  [k \in 1..checked |->
                      check_country_categories(
                          [ok |-> query_ok[k], rows |-> GroupByQuery(bq_table[COUNTRIES[k]])],
                          COUNTRIES[k], MainCategories)]
    /\ exit_code' = 0
    /\ pc' = "done"
    /\ UNCHANGED <<preflight, country_returns, verify_vars, transport_vars,
                   category_vars, country_vars, sink_vars>>

Init ==
    /\ pc = "main_start"
    /\ InitVerify /\ InitTransport /\ InitCategoryLocals /\ InitCountryLocals /\ InitMain
    /\ country_key = "none"
    /\ bq_client = FALSE
    /\ categories = <<>>
    /\ i = 0
    /\ csv_files = EmptyFiles
    /\ bq_table \in {PriorRows(S) : S \in SUBSET Range(COUNTRIES)}
    /\ InitWarehouse

Next ==
    \/ Preflight
    \/ BeginCountry(MainProbes)
    \/ CallCategory
    \/ FetchPage(MainResponses)
    \/ PageDelay
    \/ SaveAndUpload(BOOLEAN, MainUploadKinds)
    \/ AfterCategory
    \/ CategoryRaised
    \/ CategoryDelay
    \/ Interrupted
    \/ AfterCountry
    \/ Verification

Spec == Init /\ [][Next]_vars

(***************************************************************************)
(* SpecDay: the calendar day of the uploaded rows.  upload_to_bigquery     *)
(* stamps scraped_at from the UTC clock; check_today_run and               *)
(* check_country_categories ask for the rows whose DATE(scraped_at), a UTC *)
(* date, is date.today(), the date of the local clock.                     *)
(***************************************************************************)
\* offsets of the machine's zone from UTC, in hours: Pacific, UTC,
\* Bangkok/Jakarta, Kuala Lumpur
UtcOffsets == {-8, 0, 7, 8}

\* datetime.utcnow(): the day part of the ISO timestamp
UtcDay(clock) == clock.utc_hour \div 24

\* date.today(): the day of the local clock
date_today(clock) == (clock.utc_hour + clock.utc_offset) \div 24

\* COUNT(*) ... WHERE DATE(scraped_at) = today, on the rows uploaded so far
RowsOfDay(uploads, today) ==
    LET of_day == {u \in uploads : u.scraped_day = today}
        rows == [u \in of_day |-> u.rows]
    IN SumOver(rows, of_day)

InitDay ==
    /\ pc = "day"
    /\ InitVerify /\ InitTransport /\ InitCategoryLocals /\ InitCountryLocals /\ InitMain
    /\ country_key = "none" /\ bq_client = TRUE /\ categories = <<>> /\ i = 0
    /\ csv_files = EmptyFiles /\ bq_table = EmptyTable /\ uploaded = EmptyTable
    /\ now \in [utc_hour : {24}, utc_offset : UtcOffsets]
    /\ stamped = {}
    /\ day_seen = {}

\* an hour passes
DayTick ==
    /\ pc = "day"
    /\ now.utc_hour < MaxHour
    /\ now' = [now EXCEPT !.utc_hour = @ + 1]
    /\ UNCHANGED <<pc, stamped, day_seen, verify_vars, transport_vars, category_vars,
                   country_vars, main_vars, csv_files, bq_table, uploaded>>

\* upload_to_bigquery with a client and a non-empty list: every product gets
\* scraped_at = datetime.utcnow().isoformat() + 'Z'.  local_day is the
\* local date at that moment (not stored in the row).
DayUpload ==
    /\ pc = "day"
    /\ Cardinality(stamped) < MaxUploads
    /\ \E n \in {1, 40} :
           stamped' = stamped \cup {[scraped_day |-> UtcDay(now),
                                     local_day |-> date_today(now),
                                     hour |-> now.utc_hour,
                                     rows |-> n]}
    /\ UNCHANGED <<pc, now, day_seen, verify_vars, transport_vars, category_vars,
                   country_vars, main_vars, csv_files, bq_table, uploaded>>

\* a check made now: the day it asks for, the uploads made before it and
\* the number of rows its query counts
DayCheck(kind) ==
    [kind |-> kind, today |-> date_today(now), uploads |-> stamped,
     seen |-> RowsOfDay(stamped, date_today(now))]

\* check_today_run with a client
DayGuard ==
    /\ pc = "day"
    /\ Cardinality(day_seen) < MaxChecks
    /\ day_seen' = day_seen \cup {DayCheck("check_today_run")}
    /\ UNCHANGED <<pc, now, stamped, verify_vars, transport_vars, category_vars,
                   country_vars, main_vars, csv_files, bq_table, uploaded>>

\* check_country_categories of verify.py
DayReconcile ==
    /\ pc = "day"
    /\ Cardinality(day_seen) < MaxChecks
    /\ day_seen' = day_seen \cup {DayCheck("check_country_categories")}
    /\ UNCHANGED <<pc, now, stamped, verify_vars, transport_vars, category_vars,
                   country_vars, main_vars, csv_files, bq_table, uploaded>>

NextDay ==
    \/ DayTick
    \/ DayUpload
    \/ DayGuard
    \/ DayReconcile

SpecDay == InitDay /\ [][NextDay]_vars

(***************************************************************************)
(* SpecStatus: get_status_emoji on one set of arguments.                   *)
(***************************************************************************)
get_status_mut_issues_first(done, total, missing_cats, low_cats, expected_total) ==
    IF missing_cats # <<>> \/ low_cats # <<>> THEN "WARN"
    ELSE IF total = 0 THEN "FAIL"
    ELSE "OK"

\* the second element of the pair get_status_emoji returns; the comparison
\* with expected_total * TARGET_PRODUCTS_PER_CATEGORY * 0.8 in fifths
get_status_emoji(done, total, missing_cats, low_cats, expected_total) ==
    IF total = 0 THEN "FAIL"
    ELSE IF missing_cats # <<>> \/ low_cats # <<>> THEN "WARN"
    ELSE IF /\ done = expected_total
            /\ 5 * total >= 4 * expected_total * TARGET_PRODUCTS_PER_CATEGORY
         THEN "OK"
    ELSE IF total > 0 THEN "OK"
    ELSE "FAIL"

StatusTotals == {0, 1, 119, 120, 150}
StatusMissing == {<<>>, <<"Fashion">>}
StatusLow == {<<>>, << <<"Electronics", 25>> >>}

InitStatus ==
    /\ pc = "status"
    /\ status_call \in [categories_done : 0..MaxStatusCategories,
                        total_products : StatusTotals,
                        missing_cats : StatusMissing,
                        low_cats : StatusLow,
                        expected_total : 0..MaxStatusCategories,
                        status : {"none"}]
    /\ query_result = [ok |-> TRUE, rows |-> <<>>]
    /\ expected_categories = <<>>
    /\ report = NoReport
    /\ report_again = NoReport
    /\ InitTransport /\ InitCategoryLocals /\ InitCountryLocals /\ InitMain
    /\ country_key = "none" /\ bq_client = TRUE /\ categories = <<>> /\ i = 0
    /\ csv_files = EmptyFiles /\ bq_table = EmptyTable /\ InitWarehouse

GetStatus ==
    /\ pc = "status"
    /\ status_call' = [status_call EXCEPT !.status =
           get_status_emoji(status_call.categories_done, status_call.total_products,
                            status_call.missing_cats, status_call.low_cats,
                            status_call.expected_total)]
    /\ pc' = "status_done"
    /\ UNCHANGED <<query_result, expected_categories, report, report_again,
                   transport_vars, category_vars, country_vars, main_vars, sink_vars>>

NextStatus == GetStatus

SpecStatus == InitStatus /\ [][NextStatus]_vars

(***************************************************************************)
(* SpecVerifyMain: one run of verify.main.                                 *)
(***************************************************************************)
\* print_dashboard: the triple it returns
print_dashboard(results, expected) ==
    [issues_found |-> \E k \in DOMAIN results :
                          Len(results[k].missing_categories)
                              + Len(results[k].low_count_categories) > 0,
     total_products |-> SumSeq([k \in DOMAIN results |-> results[k].total_products]),
     total_target |-> Len(expected) * TARGET_PRODUCTS_PER_CATEGORY * Len(COUNTRIES)]

\* print_next_steps: True when no issue line was collected
print_next_steps(results) ==
    \A k \in DOMAIN results :
        results[k].missing_categories = <<>> /\ results[k].low_count_categories = <<>>

verify_exit_mut_ignore_total(all_good, total, target) ==
    IF all_good THEN 0 ELSE 1

\* if all_good and total_products >= total_target * 0.8: sys.exit(0),
\* else sys.exit(1); the comparison in fifths
verify_exit_code(all_good, total, target) ==
    IF all_good /\ 5 * total >= 4 * target THEN 0 ELSE 1

\* today's count of each expected category in one country's table (0: no row)
VerifyCounts == {0, 25, 30, 45}

\* what the query of one country can give in a run of verify.main
VerifyQueryResults ==
    {[ok |-> TRUE, rows |-> GroupByQuery(t)] : t \in [Range(Categories) -> VerifyCounts]}
    \cup {[ok |-> FALSE, rows |-> <<>>]}

InitVerifyMain ==
    /\ pc = "verify_main"
    /\ InitVerify /\ InitTransport /\ InitCategoryLocals /\ InitCountryLocals /\ InitMain
    /\ country_key = "none" /\ bq_client = FALSE /\ categories = <<>> /\ i = 0
    /\ csv_files = EmptyFiles /\ bq_table = EmptyTable /\ InitWarehouse

\* init_bigquery and load_categories: without either, sys.exit(1)
VerifyInit ==
    /\ pc = "verify_main"
    /\ \E client_ok \in BOOLEAN, loaded \in BOOLEAN :
        /\ preflight' =
               IF ~client_ok THEN <<Checked("init_bigquery", FALSE)>>
               ELSE <<Checked("init_bigquery", TRUE), Checked("load_categories", loaded)>>
        /\ IF client_ok /\ loaded
           THEN /\ bq_client' = TRUE
                /\ expected_categories' = Categories
                /\ country_key' = COUNTRIES[1]
                /\ pc' = "verify_check"
                /\ UNCHANGED exit_code
           ELSE /\ exit_code' = 1
                /\ pc' = "exited"
                /\ UNCHANGED <<bq_client, expected_categories, country_key>>
    /\ UNCHANGED <<query_result, report, report_again, status_call,
                   country_returns, country_results, verification_log,
                   categories, i, total_products, successful_categories, cat_results,
                   category_delays, country_result, prompts, probe_class, today_queries,
                   transport_vars, category_vars, sink_vars>>

\* one turn of "for country_key in COUNTRIES.keys()"
VerifyCheck ==
    /\ pc = "verify_check"
    /\ \E q \in VerifyQueryResults :
        /\ query_result' = q
        /\ report' = check_country_categories(q, country_key, expected_categories)
        /\ country_results' = Append(country_results, report')
    /\ verification_log' = Append(verification_log, "check_country_categories")
    /\ IF country_key = COUNTRIES[Len(COUNTRIES)]
       THEN pc' = "verify_report" /\ UNCHANGED country_key
       ELSE pc' = "verify_check" /\ country_key' = NextCountryKey(country_key)
    /\ UNCHANGED <<expected_categories, report_again, status_call,
                   preflight, country_returns, exit_code,
                   bq_client, categories, i, total_products, successful_categories,
                   cat_results, category_delays, country_result, prompts, probe_class, today_queries,
                   transport_vars, category_vars, sink_vars>>

\* print_dashboard, print_next_steps and the exit code
VerifyReport ==
    /\ pc = "verify_report"
    /\ LET dashboard == print_dashboard(country_results, expected_categories)
           all_good == print_next_steps(country_results)
       IN exit_code' = verify_exit_code(all_good, dashboard.total_products,
                                        dashboard.total_target)
    /\ verification_log' = verification_log \o <<"print_dashboard", "print_next_steps">>
    /\ pc' = "exited"
    /\ UNCHANGED <<preflight, country_returns, country_results, verify_vars,
                   transport_vars, category_vars, country_vars, sink_vars>>

NextVerifyMain ==
    \/ VerifyInit
    \/ VerifyCheck
    \/ VerifyReport

SpecVerifyMain == InitVerifyMain /\ [][NextVerifyMain]_vars

(***************************************************************************)
(* Claims about the reconciliation.                                        *)
(***************************************************************************)
Reconciled == pc = "reconciled"

\* the inputs, read independently of check_country_categories
RowOf(c) == CHOOSE k \in DOMAIN query_result.rows : query_result.rows[k].category_name = c
HasRow(c) == \E k \in DOMAIN query_result.rows : query_result.rows[k].category_name = c
CountOf(c) == query_result.rows[RowOf(c)].product_count
LowNames == {report.low_count_categories[k][1] : k \in DOMAIN report.low_count_categories}
MissingNames == Range(report.missing_categories)
Sufficient(c) == HasRow(c) /\ CountOf(c) >= MIN_PRODUCTS_PER_CATEGORY
B2N(b) == IF b THEN 1 ELSE 0

\* C1: every expected category is in exactly one of: present with a count
\* >= the minimum, missing_categories, low_count_categories; the missing
\* and the low-count names are disjoint and both lie within the expected set.
C1_ExactlyOneClass ==
    Reconciled =>
        /\ MissingNames \cap LowNames = {}
        /\ MissingNames \subseteq Range(expected_categories)
        /\ LowNames \subseteq Range(expected_categories)
        /\ query_result.ok =>
               \A c \in Range(expected_categories) :
                   B2N(Sufficient(c)) + B2N(c \in MissingNames) + B2N(c \in LowNames) = 1

C1_Witness ==
    /\ Reconciled /\ query_result.ok
    /\ \E a, b, c \in Range(expected_categories) :
           Sufficient(a) /\ b \in MissingNames /\ c \in LowNames

\* C2: missing_categories is exactly the expected categories without a row
\* today, low_count_categories exactly the (category, count) pairs of the
\* expected categories whose count is strictly below 30, both in the order
\* of the expected keys; a count of exactly 30 is in neither list.
C2_MissingAndLowExact ==
    Reconciled /\ query_result.ok =>
        /\ report.missing_categories =
               SelectSeq(expected_categories, LAMBDA c : ~HasRow(c))
        /\ LET low == SelectSeq(expected_categories,
                          LAMBDA c : HasRow(c) /\ CountOf(c) < 30)
           IN report.low_count_categories = [k \in 1..Len(low) |-> <<low[k], CountOf(low[k])>>]
        /\ \A c \in Range(expected_categories) :
               HasRow(c) /\ CountOf(c) = 30 => c \notin MissingNames \cup LowNames

\* the scenario of the claim, with a category at the threshold besides
C2_Witness ==
    /\ Reconciled /\ query_result.ok
    /\ scraped_data_of(query_result.rows) = [c \in {"Hair Care", "Electronics"} |->
                                               IF c = "Hair Care" THEN 45 ELSE 25]
    /\ Range(expected_categories) = {"Hair Care", "Electronics", "Fashion"}
    /\ report.missing_categories = <<"Fashion">>
    /\ report.low_count_categories = << <<"Electronics", 25>> >>

RowCountsSeq == [k \in DOMAIN query_result.rows |-> query_result.rows[k].product_count]

\* C3: total_products is the sum of the counts of every row the warehouse
\* returned and categories_done the number of those rows, whether or not
\* the category is expected.
C3_TotalsOverAllRows ==
    Reconciled /\ query_result.ok =>
        /\ report.total_products = SumSeq(RowCountsSeq)
        /\ report.categories_done = Len(query_result.rows)

\* categories_done exceeds the number of expected categories while a
\* category is missing
C3_Witness ==
    /\ Reconciled /\ query_result.ok
    /\ report.categories_done > Len(expected_categories)
    /\ report.missing_categories # <<>>
    /\ report.total_products = SumSeq(RowCountsSeq)

(***************************************************************************)
(* Claims about the classifiers.                                           *)
(***************************************************************************)
\* text of the response, read independently of the classifiers
FirstNonWs(s) ==
    IF \E k \in DOMAIN s : s[k].t # "ws"
    THEN s[CHOOSE k \in DOMAIN s : s[k].t # "ws" /\ \A m \in 1..(k - 1) : s[m].t = "ws"].t
    ELSE "none"

TransportOk(r) == ~r.timed_out /\ r.returncode = 0

\* C7: a response of a successful transport call whose body, after
\* trimming whitespace, begins with '<' is classified Blocked whatever
\* follows, by run_curl_for_query and by validate_curl_command; a failed
\* transport call is a TransportError and a blank body Empty even so.
C7_BlockedBeforeParse ==
    pc = "classified" =>
        /\ TransportOk(response) /\ FirstNonWs(response.stdout) = "lt" =>
               /\ classified.run = "Blocked"
               /\ classified.page = "Blocked"
               /\ classified.validate = "Blocked"
        /\ ~TransportOk(response) =>
               /\ classified.run = "TransportError"
               /\ classified.validate = "TransportError"
        /\ TransportOk(response) /\ FirstNonWs(response.stdout) = "none" =>
               /\ classified.run = "Empty"
               /\ classified.validate = "Empty"

\* a body "<" followed by a valid JSON object that carries the sentinel
C7_Witness ==
    /\ pc = "classified"
    /\ TransportOk(response)
    /\ Len(response.stdout) = 3
    /\ response.stdout[1].t = "ws"
    /\ response.stdout[2].t = "lt"
    /\ response.stdout[3].t = "json"
    /\ has_captcha(response.stdout[3].v)
    /\ classified.run = "Blocked" /\ classified.validate = "Blocked"

(***************************************************************************)
(* Claims about scrape_category.  The requests and their results are read  *)
(* from pages_requested, independently of the page loop.                   *)
(***************************************************************************)
NonWs(s) == SelectSeq(s, LAMBDA tok : tok.t # "ws")

\* the body is one JSON object, with nothing but whitespace around it
BodyIsJson(r) == Len(NonWs(r.stdout)) = 1 /\ NonWs(r.stdout)[1].t = "json"

BodyDoc(r) == NonWs(r.stdout)[1].v

\* the listing records a valid response carries
PageRecords(r) ==
    IF TransportOk(r) /\ BodyIsJson(r) THEN BodyDoc(r).items ELSE <<>>

\* the parsed "ret" is a list one of whose status strings has the sentinel
IsChallenge(r) ==
    /\ TransportOk(r) /\ BodyIsJson(r)
    /\ BodyDoc(r).ret.kind = "list"
    /\ \E k \in DOMAIN BodyDoc(r).ret.val :
           \E w \in DOMAIN BodyDoc(r).ret.val[k] : BodyDoc(r).ret.val[k][w] = SENTINEL

\* Blocked, Empty, TransportError (a parse error too), or valid with no record
IsStopPage(r) ==
    \/ ~TransportOk(r)
    \/ ~BodyIsJson(r)
    \/ ~IsChallenge(r) /\ PageRecords(r) = <<>>

IsSuccessWithRecords(r) ==
    TransportOk(r) /\ BodyIsJson(r) /\ ~IsChallenge(r) /\ PageRecords(r) # <<>>

NumRequests == Len(pages_requested)
ResultOf(k) == pages_requested[k].result
LastResult == ResultOf(NumRequests)

\* the records of the requested pages 1..k, in page order
RECURSIVE RecordsThrough(_)
RecordsThrough(k) ==
    IF k = 0 THEN <<>> ELSE RecordsThrough(k - 1) \o PageRecords(ResultOf(k))

CategoryReturned == pc = "category_returned"
PageLoopLeft == pc \in {"save", "category_returned", "category_raised"}

\* C4: no page is requested after the one on which the accumulated count
\* first reaches TARGET_PRODUCTS_PER_CATEGORY, and the count then returned
\* is the whole accumulated count, which is >= the target (not cut to it).
C4_StopsAtTarget ==
    /\ \A k \in 1..(NumRequests - 1) :
           Len(RecordsThrough(k)) < TARGET_PRODUCTS_PER_CATEGORY
    /\ /\ NumRequests >= 1
       /\ IsSuccessWithRecords(LastResult)
       /\ Len(RecordsThrough(NumRequests)) >= TARGET_PRODUCTS_PER_CATEGORY
       => /\ PageLoopLeft
          /\ CategoryReturned =>
                 /\ cat_result.status = "SUCCESS"
                 /\ cat_result.count = Len(RecordsThrough(NumRequests))
                 /\ cat_result.count >= TARGET_PRODUCTS_PER_CATEGORY

\* the target is passed on page 1, before MAX_PAGES_TO_SCRAPE is reached
C4_Witness ==
    /\ CategoryReturned
    /\ NumRequests = 1 /\ NumRequests < MAX_PAGES_TO_SCRAPE
    /\ Len(PageRecords(ResultOf(1))) > TARGET_PRODUCTS_PER_CATEGORY
    /\ cat_result.count = Len(PageRecords(ResultOf(1)))

\* C5: when a page is ChallengeDetected after earlier pages yielded
\* products, scrape_category returns CAPTCHA at once and the products of
\* the earlier pages are preserved: handed to the file sink and to the
\* warehouse sink (the return value carries a count, no products).
C5_PartialPreservedOnCaptcha ==
    /\ CategoryReturned
    /\ NumRequests >= 2
    /\ IsChallenge(LastResult)
    => /\ cat_result.status = "CAPTCHA"
       /\ csv_arg = [called |-> TRUE, products |-> RecordsThrough(NumRequests - 1)]
       /\ bq_client =>
              bq_arg = [called |-> TRUE, products |-> RecordsThrough(NumRequests - 1)]

\* C6: when page p is Blocked, Empty, a TransportError or valid with no
\* listing record, no page is requested after p; scrape_category hands the
\* records of pages 1..p-1, and only those, to save_to_csv, and when it
\* returns it returns SUCCESS with their number and has handed the same
\* records to upload_to_bigquery (which is called for a non-empty list and a
\* client only).
C6_StopOnFailedPage ==
    /\ \A k \in 1..(NumRequests - 1) : IsSuccessWithRecords(ResultOf(k))
    /\ NumRequests >= 1 /\ IsStopPage(LastResult) =>
           LET kept == RecordsThrough(NumRequests - 1)
           IN /\ PageLoopLeft
              /\ pc # "save" => csv_arg = [called |-> TRUE, products |-> kept]
              /\ CategoryReturned =>
                     /\ cat_result = [status |-> "SUCCESS", count |-> Len(kept)]
                     /\ bq_arg = IF bq_client /\ kept # <<>>
                                 THEN [called |-> TRUE, products |-> kept]
                                 ELSE NotCalled

\* max_pages = 2, page 1 with 40 records, page 2 with 0 records
C6_Witness ==
    /\ CategoryReturned
    /\ NumRequests = 2
    /\ IsSuccessWithRecords(ResultOf(1)) /\ Len(PageRecords(ResultOf(1))) = 40
    /\ TransportOk(ResultOf(2)) /\ BodyIsJson(ResultOf(2)) /\ BodyDoc(ResultOf(2)).has_mods
    /\ PageRecords(ResultOf(2)) = <<>>
    /\ cat_result = [status |-> "SUCCESS", count |-> 40]
    /\ bq_arg.called /\ Len(bq_arg.products) = 40 /\ Len(csv_arg.products) = 40

\* C8: a response whose parsed "ret" list carries the sentinel makes
\* scrape_category return CAPTCHA, and none of the listing records of that
\* response is among the accumulated products or in the returned count.
C8_CaptchaPageNotCounted ==
    NumRequests >= 1 /\ IsChallenge(LastResult) =>
        /\ CategoryReturned
        /\ classified.page = "ChallengeDetected"
        /\ cat_result.status = "CAPTCHA"
        /\ cat_result.count = Len(RecordsThrough(NumRequests - 1))
        /\ all_products = RecordsThrough(NumRequests - 1)

\* the challenge response carries listing records, and so did page 1
C8_Witness ==
    /\ CategoryReturned
    /\ NumRequests = 2
    /\ IsChallenge(LastResult)
    /\ PageRecords(LastResult) # <<>>
    /\ cat_result = [status |-> "CAPTCHA", count |-> Len(PageRecords(ResultOf(1)))]
    /\ cat_result.count > 0

(***************************************************************************)
(* Claims about scrape_country and main.                                   *)
(***************************************************************************)
CompletedBefore(k) ==
    Cardinality({m \in 1..(k - 1) :
                    cat_results[m].status = "SUCCESS" /\ cat_results[m].count > 0})

RECURSIVE CountsThrough(_)
CountsThrough(k) ==
    IF k = 0 THEN 0 ELSE CountsThrough(k - 1) + cat_results[k].count

\* C9: once scrape_category has returned CAPTCHA for a category,
\* scrape_country requests no page of a later category: it returns failure
\* with the number of categories completed before (status SUCCESS with at
\* least one product) and the products counted so far, the ones counted
\* for the halted category included.  (An interrupt that arrives between
\* the return of scrape_category and that return statement is C19's case.)
C9_CaptchaHaltsCountry ==
    /\ cat_result.status = "CAPTCHA" =>
           pc \in {"category_returned", "country_returned"}
    /\ \A k \in DOMAIN cat_results :
           cat_results[k].status = "CAPTCHA" =>
               /\ k = Len(cat_results)
               /\ k = i
               /\ pc = "country_returned"
               /\ pages_requested # <<>>
               /\ IsChallenge(LastResult)
               /\ ~country_result.success
               /\ country_result.reason # "interrupted" =>
                      country_result =
                          Returned(FALSE, CompletedBefore(k), CountsThrough(k), "captcha")

\* the second category is halted after a page with products, the first one
\* was completed
C9_Witness ==
    /\ pc = "country_returned"
    /\ Len(cat_results) = 2 /\ Len(categories) >= 2
    /\ cat_results[1].status = "SUCCESS" /\ cat_results[1].count > 0
    /\ cat_results[2].status = "CAPTCHA" /\ cat_results[2].count > 0
    /\ country_result.reason = "captcha"
    /\ country_result.categories = 1
    /\ country_result.products = cat_results[1].count + cat_results[2].count

RunEnded == pc \in {"exited", "done"}

\* C10 as claimed: the countries after the one that hit the challenge are
\* still scraped, so a run that has ended has called scrape_country for
\* every country.
C10_LaterCountriesStillScraped ==
    /\ RunEnded
    /\ \E k \in DOMAIN country_returns : country_returns[k].reason = "captcha"
    => Len(country_returns) = Len(COUNTRIES)

\* C10 as amended: a scrape_country call that returns failure, as it does
\* on a ChallengeDetected in a category page or in the probe, is the last
\* one of the run: main exits with status 1, no later country is scraped
\* and the verification is not run.
C10_FailureHaltsRun ==
    /\ \A k \in DOMAIN country_returns :
           ~country_returns[k].success =>
               /\ k = Len(country_returns)
               /\ country_key = COUNTRIES[k]
               /\ pc = "exited"
               /\ exit_code = 1
               /\ country_results = <<>>
    /\ \A k \in DOMAIN country_returns :
           country_returns[k].reason = "captcha" => ~country_returns[k].success

\* Indonesia hits a challenge after Thailand was scraped: Malaysia is not
C10_Witness ==
    /\ pc = "exited"
    /\ Len(country_returns) = 2
    /\ country_returns[1].success /\ country_returns[1].products > 0
    /\ country_returns[2].reason = "captcha"
    /\ country_key = "indonesia"
    /\ exit_code = 1

(***************************************************************************)
(* Claims about missing configuration and sink failures.                   *)
(***************************************************************************)
CurlFileMissing ==
    \E k \in DOMAIN country_returns : country_returns[k].reason = "curl_missing"

NothingRequested == \A c \in Range(COUNTRIES) : page_requests[c] = 0
NothingWritten == csv_files = EmptyFiles

\* C11 as claimed: when the curl file of a country is absent, no page
\* request is issued and no product is persisted for any country.
C11_NoPartialRun ==
    CurlFileMissing => NothingRequested /\ NothingWritten

\* the file write of category k failed: its scrape_category call raised
FileWriteFailed(k) == cat_results[k].status = "ERROR"

\* the warehouse upload of the category that has just returned failed: it
\* was called and fewer rows than it was given are in the table
UploadFailed ==
    /\ pc \in {"category_returned", "category_delay"}
    /\ bq_arg.called
    /\ bq_table[country_key][categories[i]] < Len(bq_arg.products)

StoppedOtherwise == country_result.reason \in {"captcha", "interrupted"}

\* C12: a sink failure while persisting a category does not abort the
\* country run.  A failed upload leaves the status of the category SUCCESS
\* with the full count and the file written; after a failed file write or
\* a failed upload the run goes on, and unless a challenge or an interrupt
\* stops it later, it returns success having called scrape_category for
\* every category, each one that returned having been handed to the sinks.
C12_SinkFailureDoesNotAbort ==
    /\ UploadFailed =>
           /\ cat_result = [status |-> "SUCCESS", count |-> Len(bq_arg.products)]
           /\ csv_files[country_key][categories[i]] = cat_result.count
           /\ ~country_result.returned
    /\ pc = "category_raised" => ~country_result.returned
    /\ /\ pc = "country_returned"
       /\ cat_results # <<>>
       /\ ~StoppedOtherwise
       => /\ country_result.success
          /\ country_result.reason = "complete"
          /\ Len(cat_results) = Len(categories)
          /\ \A k \in DOMAIN cat_results :
                 \/ FileWriteFailed(k)
                 \/ /\ cat_results[k].status = "SUCCESS"
                    /\ csv_files[country_key][categories[k]] = cat_results[k].count

\* the file write of the first category fails, the second category is
\* fetched and written all the same, its upload fails, and the country
\* run returns success
C12_Witness ==
    /\ pc = "country_returned"
    /\ Len(cat_results) = 2
    /\ country_result = Returned(TRUE, 1, cat_results[2].count, "complete")
    /\ FileWriteFailed(1)
    /\ cat_results[2].status = "SUCCESS" /\ cat_results[2].count > 0
    /\ csv_files[country_key][categories[2]] = cat_results[2].count
    /\ bq_arg.called
    /\ bq_table[country_key][categories[2]] < cat_results[2].count

(***************************************************************************)
(* Claims about the dashboard and verify.main.                             *)
(***************************************************************************)
StatusIssues == status_call.missing_cats # <<>> \/ status_call.low_cats # <<>>

\* C13: get_status_emoji gives FAIL whenever total_products is 0, WARN
\* whenever total_products > 0 and a missing or a low-count category is
\* reported, OK in every other case with total_products > 0, whatever
\* categories_done and expected_total are.
C13_StatusByTotalAndIssues ==
    pc = "status_done" =>
        /\ status_call.total_products = 0 => status_call.status = "FAIL"
        /\ status_call.total_products > 0 /\ StatusIssues => status_call.status = "WARN"
        /\ status_call.total_products > 0 /\ ~StatusIssues => status_call.status = "OK"

\* no product at all while categories are reported missing and low: FAIL
C13_Witness ==
    /\ pc = "status_done"
    /\ status_call.total_products = 0
    /\ status_call.missing_cats # <<>> /\ status_call.low_cats # <<>>
    /\ status_call.categories_done # status_call.expected_total
    /\ status_call.status = "FAIL"

\* C14: when the warehouse query fails, check_country_categories still
\* returns a report: total_products 0, categories_done 0, every expected
\* category missing (in the order of the expected keys), no low-count
\* category, and an 'error' entry.
C14_QueryFailureReport ==
    Reconciled /\ ~query_result.ok =>
        /\ report.country_key \in Range(COUNTRIES)
        /\ report.total_products = 0
        /\ report.categories_done = 0
        /\ report.missing_categories = expected_categories
        /\ report.low_count_categories = <<>>
        /\ report.error

\* the query fails although the table has rows and three categories are
\* expected
C14_Witness ==
    /\ Reconciled /\ ~query_result.ok
    /\ query_result.rows # <<>>
    /\ Len(expected_categories) = 3
    /\ report.error
    /\ Len(report.missing_categories) = 3

(***************************************************************************)
(* Claims about scrape.main.                                               *)
(***************************************************************************)
NoClient ==
    /\ preflight # <<>>
    /\ preflight[Len(preflight)] = Checked("init_bigquery", FALSE)

AllCountriesReturned ==
    /\ Len(country_returns) = Len(COUNTRIES)
    /\ \A k \in DOMAIN country_returns : country_returns[k].returned

\* C15 as claimed: when init_bigquery returns no client, main does not
\* exit; it runs the three country scrapes and ends with the verification
\* reported as skipped.
C15_RunsWithoutClient ==
    NoClient =>
        /\ pc # "exited"
        /\ exit_code # 1
        /\ pc = "done" =>
               /\ AllCountriesReturned
               /\ country_results = <<>>

AllCountriesSucceeded ==
    AllCountriesReturned /\ \A k \in DOMAIN country_returns : country_returns[k].success

IsPrefix(s, t) == Len(s) <= Len(t) /\ s = SubSeq(t, 1, Len(s))

\* C16: the verification runs once, only after the last of three
\* successful country scrapes has returned: load_categories_verify, then
\* check_country_categories once per country in the order thailand,
\* indonesia, malaysia, then print_dashboard once, then print_next_steps
\* once (the calls after the first are made when the categories were
\* loaded); a call that raises ends the verification and main returns
\* normally all the same.
C16_VerificationOnceAfterLastCountry ==
    /\ AllCountriesSucceeded =>
           /\ pc \in {"verification", "done"}
           /\ pc = "done" => verification_log # <<>>
    /\ verification_log # <<>> =>
           /\ AllCountriesSucceeded
           /\ pc = "done" /\ exit_code = 0
           /\ IsPrefix(verification_log,
                       <<"load_categories_verify", "check_country_categories",
                         "check_country_categories", "check_country_categories",
                         "print_dashboard", "print_next_steps">>)
           /\ Len(country_results) <= Len(COUNTRIES)
           /\ \A k \in DOMAIN country_results :
                  country_results[k].country_key = COUNTRIES[k]
           /\ verification_log[Len(verification_log)] = "print_next_steps" =>
                  Len(country_results) = Len(COUNTRIES)
    /\ country_results # <<>> => verification_log # <<>>

\* the whole verification after three scraped countries
C16_Witness ==
    /\ pc = "done"
    /\ AllCountriesSucceeded
    /\ \A k \in DOMAIN country_returns : country_returns[k].products > 0
    /\ Len(verification_log) = 6
    /\ Len(country_results) = 3
    /\ country_results[1].country_key = "thailand"
    /\ country_results[3].country_key = "malaysia"
    /\ country_results[3].total_products > 0

(***************************************************************************)
(* Claims about verify.main.                                               *)
(***************************************************************************)
ReportedTotal == SumSeq([k \in DOMAIN country_results |-> country_results[k].total_products])
ReportedTarget == Len(expected_categories) * 50 * 3
NoIssueReported ==
    \A k \in DOMAIN country_results :
        /\ country_results[k].missing_categories = <<>>
        /\ country_results[k].low_count_categories = <<>>

\* C17: verify.main exits with 0 if and only if no country report has a
\* missing or low-count category and the products of the three countries
\* together are at least 80% of (number of expected categories x 50 x 3);
\* otherwise it exits with 1.
C17_ExitCode ==
    pc = "exited" =>
        /\ exit_code \in {0, 1}
        /\ Len(country_results) # Len(COUNTRIES) => exit_code = 1
        /\ Len(country_results) = Len(COUNTRIES) =>
               (exit_code = 0 <=>
                    NoIssueReported /\ 100 * ReportedTotal >= 80 * ReportedTarget)

\* exit 0 with the products at exactly 80% of the target
C17_Witness ==
    /\ pc = "exited"
    /\ Len(country_results) = 3
    /\ exit_code = 0
    /\ ReportedTarget > 0
    /\ 100 * ReportedTotal = 80 * ReportedTarget

(***************************************************************************)
(* Claims about the reconciliation as a function.                          *)
(***************************************************************************)
ReconciledAgain == pc = "reconciled_again"

\* C18: a second call of check_country_categories on the same rows,
\* presented in any order, with the same expected categories returns a
\* report identical to the first one, and a call changes neither its
\* inputs nor the sinks.
C18_DeterministicReport ==
    /\ [](ReconciledAgain => report_again = report)
    /\ [][/\ expected_categories' = expected_categories
          /\ csv_files' = csv_files /\ bq_table' = bq_table
          /\ pc = "reconcile" => query_result' = query_result]_vars

\* two rows presented against the order of their names, with a missing
\* and a low-count category in the report
C18_Witness ==
    /\ ReconciledAgain
    /\ query_result.ok
    /\ Len(query_result.rows) = 2
    /\ query_result.rows[1].category_name = "Hair Care"
    /\ query_result.rows[2].category_name = "Electronics"
    /\ report.missing_categories # <<>>
    /\ report.low_count_categories # <<>>
    /\ report.total_products > 0
    /\ report_again = report

(***************************************************************************)
(* Claims about interrupts and the duplicate-run guard.                    *)
(***************************************************************************)
InterruptReturned == country_result.reason = "interrupted"

\* the categories whose scrape_category call returned SUCCESS with products
CompletedCategories ==
    {k \in DOMAIN cat_results :
        cat_results[k].status = "SUCCESS" /\ cat_results[k].count > 0}

CountryUntouched(key) ==
    /\ page_requests[key] = 0
    /\ csv_files[key] = EmptyFiles[key]
    /\ bq_table[key] = PriorRows({key})[key]

\* the operator answered yes to the duplicate-run guard and to the start
\* prompt of the country being scraped
\* prompt of the country being scraped, from the start of its category loop
\* until main has taken its result
ContinuedAnyway ==
    /\ prompts = <<Asked("continue_anyway", TRUE), Asked("start", TRUE)>>
    /\ pc \notin {"main_start", "call_country", "verification", "done", "exited"}

\* C20: when the duplicate-run guard finds rows of today and the operator
\* declines, the country returns success with 0 categories and 0 products,
\* no category page was requested and nothing was written or uploaded for
\* it, and main goes on to the country after it (to the verification after
\* the last one); when the operator continues, the loop starts at the first
\* category, no category is skipped, and a run that reaches the end has
\* called scrape_category for every category.
C20_DuplicateGuard ==
    /\ /\ pc = "country_returned"
       /\ prompts = <<Asked("continue_anyway", FALSE)>>
       => /\ country_result = Returned(TRUE, 0, 0, "already_today")
          /\ CountryUntouched(country_key)
          /\ TodayCount(country_key) > 0
    /\ \A k \in DOMAIN country_returns :
           country_returns[k].reason = "already_today" =>
               /\ country_returns[k] = Returned(TRUE, 0, 0, "already_today")
               /\ CountryUntouched(COUNTRIES[k])
               /\ pc # "exited" \/ Len(country_returns) > k
               /\ IF k < Len(COUNTRIES)
                  THEN \E j \in (k + 1)..Len(COUNTRIES) : country_key = COUNTRIES[j]
                  ELSE pc \in {"verification", "done"}
    /\ ContinuedAnyway =>
           /\ bq_table[country_key][CategoryOrder[1]] >= 40
           /\ i >= 1
           /\ Len(cat_results) \in {i - 1, i}
           /\ pc \in {"call_category", "fetch", "page_delay", "save"} =>
                  Len(cat_results) = i - 1
           /\ country_result.reason = "complete" =>
                  Len(cat_results) = Len(categories)

\* Thailand has rows of today and the operator declines; Indonesia has rows
\* of today too, the operator continues, and the first category is scraped
\* and uploaded again on top of the rows already there
C20_Witness ==
    /\ Len(country_returns) = 1
    /\ country_returns[1].reason = "already_today"
    /\ country_key = COUNTRIES[2]
    /\ ContinuedAnyway
    /\ pc = "country_returned"
    /\ country_result.reason = "complete"
    /\ cat_results[1].status = "SUCCESS" /\ cat_results[1].count > 0
    /\ categories[1] = CategoryOrder[1]
    /\ bq_table[country_key][categories[1]] = 40 + cat_results[1].count

(***************************************************************************)
(* Claims about the order of products, the requests and the delays.        *)
(***************************************************************************)
\* the records of the consumed pages among the requested pages 1..k (the
\* pages that were a success with records), in page order
RECURSIVE ConsumedThrough(_)
ConsumedThrough(k) ==
    IF k = 0 THEN <<>>
    ELSE ConsumedThrough(k - 1)
         \o (IF IsSuccessWithRecords(ResultOf(k)) THEN PageRecords(ResultOf(k)) ELSE <<>>)

RECURSIVE ConsumedCount(_)
ConsumedCount(k) ==
    IF k = 0 THEN 0
    ELSE ConsumedCount(k - 1)
         + (IF IsSuccessWithRecords(ResultOf(k)) THEN Len(PageRecords(ResultOf(k))) ELSE 0)

HasRepeat(s) == \E a, b \in DOMAIN s : a < b /\ s[a] = s[b]

\* C21: what scrape_category hands to save_to_csv and to upload_to_bigquery
\* is the concatenation, in page order, of the listing records of the
\* consumed pages, each page in source order and nothing removed; the count
\* it returns is the sum of the record counts of the consumed pages.
C21_OrderAndNoDedup ==
    /\ csv_arg.called => csv_arg.products = ConsumedThrough(NumRequests)
    /\ bq_arg.called => bq_arg.products = ConsumedThrough(NumRequests)
    /\ CategoryReturned => cat_result.count = ConsumedCount(NumRequests)

\* two pages carry the same records: each is handed to the sinks twice
C21_Witness ==
    /\ CategoryReturned
    /\ NumRequests = 2
    /\ PageRecords(ResultOf(1)) = PageRecords(ResultOf(2))
    /\ Len(PageRecords(ResultOf(1))) = 40
    /\ csv_arg.called /\ bq_arg.called
    /\ HasRepeat(csv_arg.products) /\ HasRepeat(bq_arg.products)
    /\ csv_arg.products = PageRecords(ResultOf(1)) \o PageRecords(ResultOf(2))
    /\ cat_result = [status |-> "SUCCESS", count |-> 80]

ProbeRejected ==
    probe_class \in {"TransportError", "Empty", "Blocked", "ParseError", "ChallengeDetected"}

InCategoryLoop ==
    pc \in {"call_category", "fetch", "page_delay", "save", "category_raised",
            "category_returned", "category_delay"}

\* C22: a category page is requested, and the category loop entered, only
\* after the probe was classified Success; a probe that is a transport
\* failure, empty, Blocked, unparsable or ChallengeDetected makes
\* scrape_country return failure with 0 categories and 0 products, with
\* no query of the duplicate-run guard, no prompt and no category fetched.
C22_ProbeBeforeAnyPage ==
    /\ page_requests[country_key] > 0 \/ InCategoryLoop \/ cat_results # <<>>
           => probe_class = "Success"
    /\ today_queries > 0 \/ prompts # <<>> => probe_class = "Success"
    /\ ProbeRejected =>
           /\ pc = "country_returned"
           /\ country_result = Returned(FALSE, 0, 0, "curl_invalid")
           /\ today_queries = 0
           /\ prompts = <<>>
           /\ page_requests[country_key] = 0
           /\ cat_results = <<>>
           /\ csv_files = EmptyFiles

\* the probe meets a challenge in a run with a client and rows of today:
\* the guard would have found them
C22_Witness ==
    /\ pc = "country_returned"
    /\ probe_class = "ChallengeDetected"
    /\ response = Ok(<<Json(CaptchaOnly)>>)
    /\ bq_client
    /\ TodayCount(country_key) > 0
    /\ country_result = Returned(FALSE, 0, 0, "curl_invalid")

\* C23: the k-th request of a scrape_category call is the request for page
\* k (so pages go 1, 2, ... without gap or repetition), its first-request
\* flag is true exactly when k = 1, there are at most MAX_PAGES_TO_SCRAPE
\* requests, and no request follows one that met a challenge or failed.
C23_PagesInOrderOnce ==
    /\ NumRequests <= MAX_PAGES_TO_SCRAPE
    /\ \A k \in 1..NumRequests :
           /\ pages_requested[k].page = k
           /\ pages_requested[k].first_request = (k = 1)
    /\ \A k \in 1..(NumRequests - 1) :
           ~IsChallenge(ResultOf(k)) /\ ~IsStopPage(ResultOf(k))
    /\ pc = "fetch" => page = NumRequests + 1 /\ page <= MAX_PAGES_TO_SCRAPE
    /\ NumRequests >= 1 /\ (IsChallenge(LastResult) \/ IsStopPage(LastResult))
           => pc # "fetch" /\ pc # "page_delay"

\* the category stops because MAX_PAGES_TO_SCRAPE pages were requested,
\* with the target not reached
C23_Witness ==
    /\ CategoryReturned
    /\ NumRequests = MAX_PAGES_TO_SCRAPE
    /\ pages_requested[1].first_request /\ ~pages_requested[2].first_request
    /\ IsSuccessWithRecords(LastResult)
    /\ cat_result.status = "SUCCESS"
    /\ cat_result.count < TARGET_PRODUCTS_PER_CATEGORY
    /\ cat_result.count = Len(RecordsThrough(2))

\* C24: in a scrape_category call every page request but the last is
\* followed by exactly one inter-page delay before the next request, and the
\* last request is followed by none: when the page loop is left, whatever
\* the reason, the delays number one less than the requests.
C24_OneDelayBetweenPages ==
    /\ pc = "fetch" => page_delays = NumRequests
    /\ pc = "page_delay" =>
           /\ page_delays = NumRequests - 1
           /\ NumRequests < MAX_PAGES_TO_SCRAPE
           /\ IsSuccessWithRecords(LastResult)
           /\ Len(RecordsThrough(NumRequests)) < TARGET_PRODUCTS_PER_CATEGORY
    /\ PageLoopLeft => NumRequests >= 1 /\ page_delays = NumRequests - 1

\* two requests with one delay between them, the second one failing; and
\* no delay after it
C24_Witness ==
    /\ CategoryReturned
    /\ NumRequests = 2
    /\ page_delays = 1
    /\ ~TransportOk(LastResult)
    /\ cat_result.status = "SUCCESS"

\* C25 as claimed: whenever a category is being scraped, one inter-category
\* delay has been waited for each category before it, so that one delay lies
\* between the last request of a category and the first request of the
\* next; and when the country run has returned from the loop, no delay was
\* waited after the last category it called (category i).
C25_OneDelayBetweenCategories ==
    /\ InCategoryLoop => category_delays = i - 1
    /\ pc = "country_returned" /\ i >= 1 => category_delays = i - 1

(***************************************************************************)
(* Claims about the counts, the sinks and the reconciliation.              *)
(***************************************************************************)
\* products in the files the country run wrote (-1: no file)
FileRows(key) ==
    SumOver([n \in DOMAIN csv_files[key] |->
                IF csv_files[key][n] > 0 THEN csv_files[key][n] ELSE 0],
            DOMAIN csv_files[key])

\* C26 as claimed: whenever scrape_country has returned, a run halted by a
\* CAPTCHA included, the product total it reports is the number of
\* products written to the files of that country run.  (Returns after an
\* interrupt are left out of the formula.)
C26_TotalIsWhatWasWritten ==
    pc = "country_returned" /\ country_result.reason # "interrupted" =>
        country_result.products = FileRows(country_key)

\* the scrape_category call that has just ended was left by the exception
\* of save_to_csv, with products fetched
FileWriteJustFailed ==
    /\ csv_arg.called /\ csv_arg.products # <<>>
    /\ \/ pc = "category_raised"
       \/ /\ pc \in {"call_category", "country_returned"}
          /\ cat_results # <<>>
          /\ cat_results[Len(cat_results)].status = "ERROR"

\* C27 as claimed: when the file write of a category with at least one
\* fetched product fails, the products are still handed to the warehouse
\* upload (given a client), and once the loop body has ended they are in
\* the country's total.
C27_UploadIndependentOfFile ==
    FileWriteJustFailed =>
        /\ bq_client => bq_arg = [called |-> TRUE, products |-> csv_arg.products]
        /\ pc # "category_raised" =>
               total_products >= Len(csv_arg.products)

CountryReconciled == pc = "country_returned" /\ report # NoReport

\* the run started from a table with no row of today for the country
NoRowsBefore(key) == bq_table[key] = uploaded[key]

ReturnedNothingToUpload(k) ==
    \/ cat_results[k].status = "CAPTCHA"
    \/ cat_results[k].status = "SUCCESS" /\ cat_results[k].count = 0

ReportedMissing(n) == \E m \in DOMAIN report.missing_categories :
                          report.missing_categories[m] = n
ReportedLow(n) == \E m \in DOMAIN report.low_count_categories :
                      report.low_count_categories[m][1] = n

\* C28: in a reconciliation that follows a country run started with no row
\* of today, every category whose scrape_category call returned CAPTCHA or
\* zero products has no row, is reported missing and is not reported low;
\* and every category reported neither missing nor low had at least
\* MIN_PRODUCTS_PER_CATEGORY products inserted by the run.
C28_NothingUploadedIsMissing ==
    CountryReconciled /\ NoRowsBefore(country_key) =>
        /\ \A k \in DOMAIN cat_results :
               ReturnedNothingToUpload(k) =>
                   /\ bq_table[country_key][categories[k]] = 0
                   /\ ReportedMissing(categories[k])
                   /\ ~ReportedLow(categories[k])
        /\ \A k \in DOMAIN categories :
               ~ReportedMissing(categories[k]) /\ ~ReportedLow(categories[k]) =>
                   uploaded[country_key][categories[k]] >= MIN_PRODUCTS_PER_CATEGORY

\* the first category is uploaded in full, the second one meets a challenge
\* on page 2 after 10 products: it is missing, not low
C28_Witness ==
    /\ CountryReconciled
    /\ NoRowsBefore(country_key)
    /\ ~report.error
    /\ cat_results = <<[status |-> "SUCCESS", count |-> 40],
                       [status |-> "CAPTCHA", count |-> 10]>>
    /\ uploaded[country_key][categories[1]] = 40
    /\ report.missing_categories = <<categories[2]>>
    /\ report.low_count_categories = <<>>

\* rows of today that an earlier run of today had inserted
RowsBefore(key, n) == bq_table[key][n] - uploaded[key][n]

\* C29 as claimed: a reconciliation after the runs of a day reports a
\* category as present and not low only if one single run (the earlier run
\* of today or this one) inserted at least MIN_PRODUCTS_PER_CATEGORY
\* products for it.
C29_RunsNotAddedTogether ==
    CountryReconciled /\ ~report.error =>
        \A k \in DOMAIN categories :
            ~ReportedMissing(categories[k]) /\ ~ReportedLow(categories[k]) =>
                \/ uploaded[country_key][categories[k]] >= MIN_PRODUCTS_PER_CATEGORY
                \/ RowsBefore(country_key, categories[k]) >= MIN_PRODUCTS_PER_CATEGORY

(***************************************************************************)
(* Claims about the calendar day of the rows.                              *)
(***************************************************************************)
\* C30 as claimed: a guard check or a reconciliation made on the same
\* local calendar day as an earlier upload counts the rows of that upload:
\* the day stamped on them is the day the check asks for.
C30_SameDayRowsAreSeen ==
    \A c \in day_seen :
        \A u \in c.uploads :
            u.local_day = c.today =>
                /\ u.scraped_day = c.today
                /\ c.seen >= u.rows

====
